---- MODULE Spec2Model ----
(***************************************************************************)
(* A model of the BitTorrent client of this repository.  The repository    *)
(* holds three client implementations that share no code:                  *)
(*   "complete": piece_manager_complete.py, peer_complete.py,              *)
(*               file_manager_complete.py, main_complete.py   (prefix c_)  *)
(*   "client":   piece_manager_client.py, peer_client.py,                  *)
(*               file_manager_client.py, main_client.py       (prefix k_)  *)
(*   "plain":    piece_manager.py, peer.py, file_manager.py, client.py     *)
(*                                                            (prefix p_)  *)
(* Each has its own variables, initial predicate and next-state relation.  *)
(*                                                                         *)
(* Block payloads are abstracted to "ok" (the bytes of the original        *)
(* content) and "bad" (any other bytes); SHA-1 is modelled as injective,   *)
(* so a piece matches its expected hash iff every block of it is "ok".     *)
(***************************************************************************)
EXTENDS Integers, Sequences, FiniteSets, TLC

(***************************************************************************)
(* Program constants.                                                      *)
(***************************************************************************)
BLOCK_SIZE == 16384

max_pending_requests == 10

PIECE_PENDING_CAP == 5

(***************************************************************************)
(* Bounds of the model.                                                    *)
(***************************************************************************)
\* blocks in a full piece of the torrents the model loads
BlocksPerPiece == 2

\* pieces of the torrents the model loads
NumPiecesBound == 2

\* bytes of the final block of the final piece (shorter than a block)
LastBlockBytes == 100

\* faults of the environment in one run: piece messages with a corrupted
\* payload, failed disk writes, failed socket sends, request timeouts
MaxFaults == 1

Min(a, b) == IF a < b THEN a ELSE b

Max(a, b) == IF a > b THEN a ELSE b

(***************************************************************************)
(* Metainfo ("complete": torrent_complete.py).                             *)
(***************************************************************************)
\* A torrent: piece_length, total_length and the number of piece hashes.
MkTorrent(pl, total) ==
    [piece_length |-> pl, total_length |-> total,
     num_pieces |-> (total + pl - 1) \div pl]

\* a torrent of NumPiecesBound pieces: full pieces of BlocksPerPiece blocks and
\* a final piece of one block of LastBlockBytes bytes
DefaultTorrent ==
    MkTorrent(BlocksPerPiece * BLOCK_SIZE,
              (NumPiecesBound - 1) * BlocksPerPiece * BLOCK_SIZE + LastBlockBytes)

\* every piece as long as the nominal piece length, the final one too
get_piece_length_nominal(t, piece_index) == t.piece_length

\* Torrent.get_piece_length
get_piece_length(t, piece_index) ==
    IF piece_index = t.num_pieces - 1
    THEN t.total_length - (piece_index * t.piece_length)
    ELSE t.piece_length

PieceIndices(t) == 0 .. (t.num_pieces - 1)

(***************************************************************************)
(* Piece._create_blocks: the (offset, length) pairs of a piece.            *)
(***************************************************************************)
RECURSIVE CreateBlocksFrom(_, _)
CreateBlocksFrom(offset, length) ==
    IF offset < length
    THEN LET block_length == Min(BLOCK_SIZE, length - offset)
         IN  <<[offset |-> offset, length |-> block_length]>>
                 \o CreateBlocksFrom(offset + block_length, length)
    ELSE <<>>

\* blocks that are all BLOCK_SIZE long, the final one too
create_blocks_fixed(length) ==
    [k \in 1 .. ((length + BLOCK_SIZE - 1) \div BLOCK_SIZE) |->
        [offset |-> (k - 1) * BLOCK_SIZE, length |-> BLOCK_SIZE]]

_create_blocks(length) == CreateBlocksFrom(0, length)

\* PieceBlock.__init__
NewBlock(b) ==
    [offset |-> b.offset, length |-> b.length, data |-> "none",
     requested |-> FALSE, received |-> FALSE, aged |-> FALSE]

\* Piece.__init__
NewPiece(t, i) ==
    LET bs == _create_blocks(get_piece_length(t, i))
    IN  [length |-> get_piece_length(t, i),
         blocks |-> [k \in 1 .. Len(bs) |-> NewBlock(bs[k])],
         completed |-> FALSE, verified |-> FALSE]

SeqIndices(s) == 1 .. Len(s)

\* SHA-1 of the reassembled piece against the metainfo hash
HashMatches(piece) == \A k \in SeqIndices(piece.blocks) : piece.blocks[k].data = "ok"

(***************************************************************************)
(* "complete" implementation: state.                                       *)
(***************************************************************************)
VARIABLES
    c_torrent,   \* the loaded metainfo
    c_pm,        \* PieceManager: pieces, completed_pieces, pending_requests
    c_disk,      \* FileManager: per piece "none" (absent), "ok" (the verified bytes)
    c_peer,      \* the Peer objects
    c_out,       \* the message the last step put on the wire (NoMsg: none)
    c_budget     \* what is left of MaxFaults

c_vars == <<c_torrent, c_pm, c_disk, c_peer, c_out, c_budget>>

(***************************************************************************)
(* "client" implementation: state.                                         *)
(***************************************************************************)
VARIABLES
    k_torrent,   \* the loaded metainfo (torrent_new.py)
    k_cfg,       \* max_peers, the endpoints the trackers return, the number
                 \* of PeerConnection objects a run may create, and the
                 \* pieces found on disk at startup
    k_pm,        \* PieceManager: pieces, completed_pieces, total_downloaded
    k_disk,      \* FileManager: per piece "none" or "ok"
    k_conn,      \* the PeerConnection objects, in the order of their creation
    k_peers,     \* PeerManager.peers: the dict, as its values in insertion order
    k_loop,      \* where BitTorrentClient._download_loop stands
    k_out,       \* the message the last step put on the wire (NoMsg: none)
    k_budget     \* what is left of MaxFaults

k_vars == <<k_torrent, k_cfg, k_pm, k_disk, k_conn, k_peers, k_loop, k_out, k_budget>>

(***************************************************************************)
(* "plain" implementation: state.                                          *)
(***************************************************************************)
VARIABLES
    p_torrent,   \* the loaded metainfo (torrent.py)
    p_pieces,    \* PieceManager.pieces: index -> list of blocks ("none": None);
                 \* an index that is no key maps to <<>>
    p_have,      \* PieceManager.have_pieces
    p_failed,    \* PieceManager.failed_pieces
    p_events,    \* per piece, the 'piece_received' and 'piece_verified'
                 \* messages published so far (counted up to MaxEvents)
    p_peer,      \* the Peer objects: open, choked, bitfield, the requests
                 \* sent to the remote side that it has not answered, and
                 \* whether connect sent interested
    p_seed,      \* Client in seed mode: mode ("off", "seeding": listening and
                 \* announced), per piece what the files hold at its place
                 \* ("ok": the bytes of the metainfo hash, "bad", "none"), and
                 \* the incoming connections it accepted and dropped
    p_store,     \* FileManager (file_manager.py) and the files it writes:
                 \* piece_length, the lengths of the files in metainfo order,
                 \* per file its bytes (0: never written), the pieces written
    p_progress,  \* the progress files of the download directory by name,
                 \* PieceManager.piece_progress, the data of the last
                 \* save_progress call, and "off", "new", "saved", "started"
    p_budget     \* what is left of MaxFaults

p_vars == <<p_torrent, p_pieces, p_have, p_failed, p_events, p_peer, p_seed, p_store,
            p_progress, p_budget>>

(***************************************************************************)
(* tracker responses: state.                                               *)
(***************************************************************************)
VARIABLES
    t_kind,      \* who reads the response: "http" (HTTPTracker), "udp"
                 \* (UDPTracker) of tracker_complete.py, "client"
                 \* (TrackerResponse of tracker_client.py); "off": nobody
    t_data,      \* the compact peer list of the response, as its bytes
    t_peers,     \* the endpoints decoded from it
    t_pc,        \* "wait" (response received), "parsed"
    t_udp        \* the UDP tracker session: connection id, its age, the
                 \* id the tracker granted, the last datagram sent

t_vars == <<t_kind, t_data, t_peers, t_pc, t_udp>>

\* a run executes one implementation; the variables of the others keep the
\* values they have when that code is not started
vars == <<c_vars, k_vars, p_vars, t_vars>>

\* the Peer objects of the "complete" implementation
Peers == {"A", "B"}

NoMsg == [type |-> "none"]

(***************************************************************************)
(* piece_manager_complete.py: Piece.                                       *)
(***************************************************************************)
\* index of the block of `piece` at `offset`, 0 if there is none
BlockAt(piece, offset) ==
    LET ks == {k \in SeqIndices(piece.blocks) : piece.blocks[k].offset = offset}
    IN  IF ks = {} THEN 0 ELSE CHOOSE k \in ks : TRUE

\* Piece.reset
Piece_reset(piece) ==
    [piece EXCEPT
        !.completed = FALSE,
        !.verified = FALSE,
        !.blocks = [k \in SeqIndices(piece.blocks) |->
                       [piece.blocks[k] EXCEPT !.data = "none", !.received = FALSE,
                                               !.requested = FALSE, !.aged = FALSE]]]

\* Piece.add_block: the piece afterwards and the value returned
Piece_add_block(piece, offset, dlen, data) ==
    LET k == BlockAt(piece, offset)
    IN  IF k = 0 \/ dlen # piece.blocks[k].length
        THEN [piece |-> piece, result |-> FALSE]
        ELSE LET stored == [piece EXCEPT !.blocks[k].data = data,
                                         !.blocks[k].received = TRUE]
                 completed == \A j \in SeqIndices(stored.blocks) : stored.blocks[j].received
                 full == [stored EXCEPT !.completed = completed]
             IN  IF ~completed
                 THEN [piece |-> full, result |-> FALSE]
                 ELSE IF HashMatches(full)
                      THEN [piece |-> [full EXCEPT !.verified = TRUE], result |-> TRUE]
                      ELSE [piece |-> Piece_reset(full), result |-> FALSE]

\* Piece.get_next_block_request: the first block, in offset order, that is
\* neither received nor requested, or whose request is older than 60 s
\* (0: none).  The second test does not look at `received`.
NextBlockIndex(piece) ==
    LET ks == {k \in SeqIndices(piece.blocks) :
                  \/ ~piece.blocks[k].received /\ ~piece.blocks[k].requested
                  \/ piece.blocks[k].requested /\ piece.blocks[k].aged}
    IN  IF ks = {} THEN 0 ELSE CHOOSE k \in ks : \A j \in ks : k <= j

Piece_get_next_block_request(piece, k) ==
    [piece EXCEPT !.blocks[k].requested = TRUE, !.blocks[k].aged = FALSE]

\* Piece.cancel_block_request
Piece_cancel_block_request(piece, offset) ==
    LET k == BlockAt(piece, offset)
    IN  IF k = 0 THEN piece
        ELSE [piece EXCEPT !.blocks[k].requested = FALSE, !.blocks[k].aged = FALSE]

(***************************************************************************)
(* piece_manager_complete.py: PieceManager.                                *)
(***************************************************************************)
\* PieceManager._mark_piece_completed
_mark_piece_completed(pm, piece_index) ==
    [pm EXCEPT !.completed_pieces = @ \cup {piece_index},
               !.pieces[piece_index].completed = TRUE,
               !.pieces[piece_index].verified = TRUE]

\* PieceManager.__init__: _initialize_pieces, then _check_existing_pieces,
\* which marks the pieces whose bytes on disk match their hash
PM_init(t, disk) ==
    LET fresh == [pieces |-> [i \in PieceIndices(t) |-> NewPiece(t, i)],
                  completed_pieces |-> {i \in PieceIndices(t) : disk[i] = "ok"},
                  pending_requests |-> {}]
    IN  [fresh EXCEPT !.pieces = [i \in PieceIndices(t) |->
            IF disk[i] = "ok"
            THEN [fresh.pieces[i] EXCEPT !.completed = TRUE, !.verified = TRUE]
            ELSE fresh.pieces[i]]]

need_piece(pm, piece_index) == piece_index \notin pm.completed_pieces

have_piece(pm, piece_index) == piece_index \in pm.completed_pieces

\* engine pending entries of one piece
PiecePending(pm, piece_index) ==
    Cardinality({r \in pm.pending_requests : r[1] = piece_index})

\* get_next_request raises KeyError when a needed index is no piece
\* (_calculate_piece_priorities reads self.pieces[piece_index])
NextRequestKeyError(pm, peer_pieces) ==
    \E i \in peer_pieces : need_piece(pm, i) /\ i \notin DOMAIN pm.pieces

Grantable(pm, i) ==
    /\ PiecePending(pm, i) < PIECE_PENDING_CAP
    /\ NextBlockIndex(pm.pieces[i]) # 0

\* The pieces get_next_request may take its block from: the shuffled partial
\* pieces come first, then the shuffled empty ones, and the first piece of
\* that order that is under the cap and has a block to give is taken.
NextRequestPieces(pm, peer_pieces) ==
    LET needed == {i \in peer_pieces : need_piece(pm, i)}
        partial == {i \in needed :
                      \E k \in SeqIndices(pm.pieces[i].blocks) : pm.pieces[i].blocks[k].received}
        gp == {i \in partial : Grantable(pm, i)}
        ge == {i \in needed \ partial : Grantable(pm, i)}
    IN  IF gp # {} THEN gp ELSE ge

\* PieceManager.get_next_request, once the piece is chosen: the engine
\* afterwards and the request handed out
get_next_request(pm, piece_index) ==
    LET piece == pm.pieces[piece_index]
        k == NextBlockIndex(piece)
    IN  [pm |-> [pm EXCEPT
                    !.pieces[piece_index] = Piece_get_next_block_request(piece, k),
                    !.pending_requests = @ \cup {<<piece_index, piece.blocks[k].offset>>}],
         request |-> [piece_index |-> piece_index,
                      block_offset |-> piece.blocks[k].offset,
                      block_length |-> piece.blocks[k].length]]

\* PieceManager.cancel_request
cancel_request(pm, piece_index, block_offset) ==
    LET removed == [pm EXCEPT !.pending_requests = @ \ {<<piece_index, block_offset>>}]
    IN  IF piece_index \in DOMAIN pm.pieces
        THEN [removed EXCEPT !.pieces[piece_index] =
                 Piece_cancel_block_request(@, block_offset)]
        ELSE removed

\* cancel_request for every request of a set
RECURSIVE CancelAll(_, _)
CancelAll(pm, reqs) ==
    IF reqs = {} THEN pm
    ELSE LET r == CHOOSE x \in reqs : TRUE
         IN  CancelAll(cancel_request(pm, r[1], r[2]), reqs \ {r})

\* FileManager.write_piece: it catches every exception and returns False;
\* a failed write leaves the piece's bytes on disk as they were
write_piece(disk, piece_index, ok) ==
    IF ok THEN [disk EXCEPT ![piece_index] = "ok"] ELSE disk

\* PieceManager.add_block: the engine and the disk afterwards and the value
\* returned.  The value write_piece returns is not looked at.
add_block(pm, disk, piece_index, block_offset, dlen, data, write_ok) ==
    LET pm1 == [pm EXCEPT !.pending_requests = @ \ {<<piece_index, block_offset>>}]
    IN  IF piece_index \in pm1.completed_pieces
        THEN [pm |-> pm1, disk |-> disk, result |-> FALSE]
        ELSE LET r == Piece_add_block(pm1.pieces[piece_index], block_offset, dlen, data)
                 pm2 == [pm1 EXCEPT !.pieces[piece_index] = r.piece]
             IN  IF r.result
                 THEN [pm |-> _mark_piece_completed(pm2, piece_index),
                       disk |-> write_piece(disk, piece_index, write_ok),
                       result |-> TRUE]
                 ELSE [pm |-> pm2, disk |-> disk, result |-> FALSE]

(***************************************************************************)
(* peer_complete.py: Peer.  A Peer is "new" until connect() is called,     *)
(* "open" while self.connected, "closed" afterwards.  thr is where its     *)
(* message thread stands: "none" (not started), "idle" (blocked in recv),  *)
(* "pump" (inside the while loop of _request_pieces), "payload" (blocked   *)
(* in _receive_exact(message_length) after a length prefix), "dead"        *)
(* (ended).                                                                *)
(* cleanups counts the calls of disconnect() that reached their end: the   *)
(* pending requests cancelled, on_disconnect called.                       *)
(* resp_info_hash is the info hash of the handshake received ("none": no   *)
(* handshake was looked at).                                               *)
(***************************************************************************)
\* Peer.__init__
NewPeer ==
    [phase |-> "new", thr |-> "none", am_interested |-> FALSE, peer_choking |-> TRUE,
     am_choking |-> TRUE, peer_interested |-> FALSE,
     have_pieces |-> {}, pending_requests |-> {}, cleanups |-> 0,
     resp_info_hash |-> "none", message_length |-> 0]

\* the piece indices a have or bitfield message can carry: every piece and
\* one index past the last (a spare bit of the final bitfield byte)
WireIndices(t) == 0 .. t.num_pieces

\* the bitfields the remote side sends
Bitfields(t) == {PieceIndices(t), WireIndices(t)}

\* the payloads of a piece message: the right bytes, other bytes of the
\* right length, bytes of another length
Payloads == {"ok", "bad", "short"}

PayloadLength(block, payload) ==
    IF payload = "short" THEN block.length - 1 ELSE block.length

PayloadData(payload) == IF payload = "ok" THEN "ok" ELSE "bad"

\* Peer.disconnect called on the Peer's own message or keep-alive thread:
\* connected and running are cleared and the socket closed, then join() of
\* the current thread raises RuntimeError, so the statements after it (the
\* cancel_request loop, pending_requests.clear()) are not executed
disconnect_own_thread(peer) ==
    [peer EXCEPT !.phase = "closed", !.thr = "dead"]

\* the position of the message thread when a handler calls _request_pieces
request_pieces_entry(peer) ==
    IF peer.am_interested /\ ~peer.peer_choking THEN "pump" ELSE "idle"

\* the position of the message thread when a handler returns
handler_return(peer) == IF peer.phase = "open" THEN "idle" ELSE "dead"

SendFailures == IF c_budget > 0 THEN {FALSE, TRUE} ELSE {FALSE}

WriteResults == IF c_budget > 0 THEN {TRUE, FALSE} ELSE {TRUE}

\* Peer.connect succeeding: socket connected, handshake done, threads started
c_Connect(s) ==
    /\ c_peer[s].phase = "new"
    /\ c_peer' = [c_peer EXCEPT ![s].phase = "open", ![s].thr = "idle"]
    /\ c_out' = NoMsg
    /\ UNCHANGED <<c_torrent, c_pm, c_disk, c_budget>>
    /\ UNCHANGED <<k_vars, p_vars, t_vars>>

\* Peer.connect failing (socket error or bad handshake): disconnect() runs
\* with no thread started
c_ConnectFail(s) ==
    /\ c_peer[s].phase = "new"
    /\ c_peer' = [c_peer EXCEPT ![s].phase = "closed"]
    /\ c_out' = NoMsg
    /\ UNCHANGED <<c_torrent, c_pm, c_disk, c_budget>>
    /\ UNCHANGED <<k_vars, p_vars, t_vars>>

\* the info hash of the torrent, and the info hashes a handshake can carry
info_hash == "ih"

InfoHashes == {"ih", "other"}

\* a handshake that accepts every info hash
_perform_handshake_any(resp_info_hash) == TRUE

\* Peer._perform_handshake for a well-formed response: "if resp_info_hash !=
\* self.info_hash: raise PeerError", caught, and False is returned
_perform_handshake(resp_info_hash) == resp_info_hash = info_hash

\* Peer.connect with the socket connected and a handshake response received:
\* with _perform_handshake false it calls disconnect() and returns before any
\* thread is started
c_Handshake(s) ==
    /\ c_peer[s].phase = "new"
    /\ \E resp \in InfoHashes :
         c_peer' = [c_peer EXCEPT ![s] =
             IF _perform_handshake(resp)
             THEN [@ EXCEPT !.phase = "open", !.thr = "idle", !.resp_info_hash = resp]
             ELSE [@ EXCEPT !.phase = "closed", !.resp_info_hash = resp,
                            !.cleanups = @ + 1]]
    /\ c_out' = NoMsg
    /\ UNCHANGED <<c_torrent, c_pm, c_disk, c_budget>>
    /\ UNCHANGED <<k_vars, p_vars, t_vars>>

\* Peer._handle_choke
c_RecvChoke(s) ==
    /\ c_peer[s].phase = "open" /\ c_peer[s].thr = "idle"
    /\ ~c_peer[s].peer_choking
    /\ c_pm' = CancelAll(c_pm, c_peer[s].pending_requests)
    /\ c_peer' = [c_peer EXCEPT ![s].peer_choking = TRUE, ![s].pending_requests = {}]
    /\ c_out' = NoMsg
    /\ UNCHANGED <<c_torrent, c_disk, c_budget>>
    /\ UNCHANGED <<k_vars, p_vars, t_vars>>

\* Peer._handle_unchoke
c_RecvUnchoke(s) ==
    /\ c_peer[s].phase = "open" /\ c_peer[s].thr = "idle"
    /\ LET unchoked == [c_peer[s] EXCEPT !.peer_choking = FALSE]
       IN  c_peer' = [c_peer EXCEPT ![s] =
               [unchoked EXCEPT !.thr = request_pieces_entry(unchoked)]]
    /\ c_out' = NoMsg
    /\ UNCHANGED <<c_torrent, c_pm, c_disk, c_budget>>
    /\ UNCHANGED <<k_vars, p_vars, t_vars>>

\* Peer.send_interested, reached from _handle_have and _handle_bitfield with
\* the peer's have_pieces already updated
send_interested(s, peer, fail) ==
    LET interested == [peer EXCEPT !.am_interested = TRUE]
    IN  IF fail
        THEN /\ c_peer' = [c_peer EXCEPT ![s] = disconnect_own_thread(interested)]
             /\ c_out' = NoMsg
             /\ c_budget' = c_budget - 1
        ELSE /\ c_peer' = [c_peer EXCEPT ![s] =
                    [interested EXCEPT !.thr = request_pieces_entry(interested)]]
             /\ c_out' = [type |-> "interested", peer |-> s]
             /\ UNCHANGED c_budget

\* Peer._handle_have
c_RecvHave(s) ==
    /\ c_peer[s].phase = "open" /\ c_peer[s].thr = "idle"
    /\ \E piece_index \in WireIndices(c_torrent), fail \in SendFailures :
         /\ piece_index \notin c_peer[s].have_pieces
         /\ LET added == [c_peer[s] EXCEPT !.have_pieces = @ \cup {piece_index}]
            IN  IF ~added.am_interested /\ need_piece(c_pm, piece_index)
                THEN send_interested(s, added, fail)
                ELSE /\ ~fail
                     /\ c_peer' = [c_peer EXCEPT ![s] = added]
                     /\ c_out' = NoMsg
                     /\ UNCHANGED c_budget
    /\ UNCHANGED <<c_torrent, c_pm, c_disk>>
    /\ UNCHANGED <<k_vars, p_vars, t_vars>>

\* Peer._peer_has_needed_pieces
_peer_has_needed_pieces(pm, peer) ==
    \E piece_index \in peer.have_pieces : need_piece(pm, piece_index)

\* Peer._handle_bitfield
c_RecvBitfield(s) ==
    /\ c_peer[s].phase = "open" /\ c_peer[s].thr = "idle"
    /\ \E bits \in Bitfields(c_torrent), fail \in SendFailures :
         /\ bits # c_peer[s].have_pieces
         /\ LET replaced == [c_peer[s] EXCEPT !.have_pieces = bits]
            IN  IF ~replaced.am_interested /\ _peer_has_needed_pieces(c_pm, replaced)
                THEN send_interested(s, replaced, fail)
                ELSE /\ ~fail
                     /\ c_peer' = [c_peer EXCEPT ![s] = replaced]
                     /\ c_out' = NoMsg
                     /\ UNCHANGED c_budget
    /\ UNCHANGED <<c_torrent, c_pm, c_disk>>
    /\ UNCHANGED <<k_vars, p_vars, t_vars>>

\* Peer._handle_piece for a piece message (piece_index, block_offset, payload)
\* answering one of the Peer's pending requests; it ends in _request_pieces
c_RecvPiece(s) ==
    /\ c_peer[s].phase = "open" /\ c_peer[s].thr = "idle"
    /\ \E piece_index \in PieceIndices(c_torrent), payload \in Payloads,
          write_ok \in WriteResults :
         \E k \in SeqIndices(c_pm.pieces[piece_index].blocks) :
           LET block == c_pm.pieces[piece_index].blocks[k]
               r == add_block(c_pm, c_disk, piece_index, block.offset,
                              PayloadLength(block, payload), PayloadData(payload),
                              write_ok)
               popped == [c_peer[s] EXCEPT
                             !.pending_requests = @ \ {<<piece_index, block.offset>>}]
           IN  /\ <<piece_index, block.offset>> \in c_peer[s].pending_requests
               /\ payload # "ok" => c_budget > 0
               /\ ~write_ok => r.result
               /\ c_pm' = r.pm
               /\ c_disk' = r.disk
               /\ c_peer' = [c_peer EXCEPT ![s] =
                      [popped EXCEPT !.thr = request_pieces_entry(popped)]]
               /\ c_budget' = IF payload # "ok" \/ ~write_ok THEN c_budget - 1 ELSE c_budget
    /\ c_out' = NoMsg
    /\ UNCHANGED c_torrent
    /\ UNCHANGED <<k_vars, p_vars, t_vars>>

\* Peer._handle_piece for a piece message whose piece_index is no piece:
\* PieceManager.add_block raises KeyError, the message loop breaks and
\* calls disconnect()
c_RecvPieceOutOfRange(s) ==
    /\ c_peer[s].phase = "open" /\ c_peer[s].thr = "idle"
    /\ c_budget > 0
    /\ c_budget' = c_budget - 1
    /\ c_peer' = [c_peer EXCEPT ![s] = disconnect_own_thread(c_peer[s])]
    /\ c_out' = NoMsg
    /\ UNCHANGED <<c_torrent, c_pm, c_disk>>
    /\ UNCHANGED <<k_vars, p_vars, t_vars>>

\* one pass of the while loop of Peer._request_pieces
c_PumpStep(s) ==
    /\ c_peer[s].thr = "pump"
    /\ IF Cardinality(c_peer[s].pending_requests) >= max_pending_requests
       THEN /\ c_peer' = [c_peer EXCEPT ![s].thr = handler_return(c_peer[s])]
            /\ c_out' = NoMsg
            /\ UNCHANGED <<c_pm, c_budget>>
       ELSE IF NextRequestKeyError(c_pm, c_peer[s].have_pieces)
       THEN /\ c_peer' = [c_peer EXCEPT ![s] = disconnect_own_thread(c_peer[s])]
            /\ c_out' = NoMsg
            /\ UNCHANGED <<c_pm, c_budget>>
       ELSE IF NextRequestPieces(c_pm, c_peer[s].have_pieces) = {}
       THEN /\ c_peer' = [c_peer EXCEPT ![s].thr = handler_return(c_peer[s])]
            /\ c_out' = NoMsg
            /\ UNCHANGED <<c_pm, c_budget>>
       ELSE \E piece_index \in NextRequestPieces(c_pm, c_peer[s].have_pieces),
               fail \in SendFailures :
              LET r == get_next_request(c_pm, piece_index)
                  key == <<r.request.piece_index, r.request.block_offset>>
              IN  /\ c_pm' = r.pm
                  /\ IF c_peer[s].phase # "open"
                     THEN \* _send_message returns at once: nothing is sent
                          /\ ~fail
                          /\ c_peer' = [c_peer EXCEPT ![s].pending_requests = @ \cup {key}]
                          /\ c_out' = NoMsg
                          /\ UNCHANGED c_budget
                     ELSE IF fail
                     THEN /\ c_peer' = [c_peer EXCEPT ![s] = disconnect_own_thread(c_peer[s])]
                          /\ c_out' = NoMsg
                          /\ c_budget' = c_budget - 1
                     ELSE /\ c_peer' = [c_peer EXCEPT ![s].pending_requests = @ \cup {key}]
                          /\ c_out' = [type |-> "request", peer |-> s,
                                       piece_index |-> r.request.piece_index,
                                       block_offset |-> r.request.block_offset,
                                       block_length |-> r.request.block_length]
                          /\ UNCHANGED c_budget
    /\ UNCHANGED <<c_torrent, c_disk>>
    /\ UNCHANGED <<k_vars, p_vars, t_vars>>

\* Peer._message_loop leaving its loop because recv failed (the remote side
\* closed the connection, a timeout, a malformed frame): it calls disconnect()
c_LoopExit(s) ==
    /\ c_peer[s].phase = "open" /\ c_peer[s].thr = "idle"
    /\ c_peer' = [c_peer EXCEPT ![s] = disconnect_own_thread(c_peer[s])]
    /\ c_out' = NoMsg
    /\ UNCHANGED <<c_torrent, c_pm, c_disk, c_budget>>
    /\ UNCHANGED <<k_vars, p_vars, t_vars>>

\* Peer._keep_alive_loop: the send of a keep-alive fails and _send_message
\* calls disconnect() on the keep-alive thread.  The message thread, if it
\* is inside a handler, goes on; blocked in recv, it ends.
c_KeepAliveSendFail(s) ==
    /\ c_peer[s].phase = "open"
    /\ c_budget > 0
    /\ c_budget' = c_budget - 1
    /\ c_peer' = [c_peer EXCEPT ![s].phase = "closed",
                                ![s].thr = IF c_peer[s].thr = "pump" THEN "pump" ELSE "dead"]
    /\ c_out' = NoMsg
    /\ UNCHANGED <<c_torrent, c_pm, c_disk>>
    /\ UNCHANGED <<k_vars, p_vars, t_vars>>

\* Peer.disconnect called from another thread (PeerManager.stop, the owner
\* of the Peer): join() waits for the message thread, then every pending
\* request is cancelled in the piece manager
c_Disconnect(s) ==
    /\ c_peer[s].phase = "open" /\ c_peer[s].thr = "idle"
    /\ c_pm' = CancelAll(c_pm, c_peer[s].pending_requests)
    /\ c_peer' = [c_peer EXCEPT ![s].phase = "closed", ![s].thr = "dead",
                                ![s].pending_requests = {},
                                ![s].cleanups = @ + 1]
    /\ c_out' = NoMsg
    /\ UNCHANGED <<c_torrent, c_disk, c_budget>>
    /\ UNCHANGED <<k_vars, p_vars, t_vars>>

\* Peer._handle_interested: _should_unchoke_peer is peer_interested, so a
\* choked remote side is unchoked at once (send_unchoke)
c_RecvInterested(s) ==
    /\ c_peer[s].phase = "open" /\ c_peer[s].thr = "idle"
    /\ ~c_peer[s].peer_interested
    /\ \E fail \in SendFailures :
         LET interested == [c_peer[s] EXCEPT !.peer_interested = TRUE]
             unchoked == [interested EXCEPT !.am_choking = FALSE]
         IN  IF ~interested.am_choking
             THEN /\ ~fail
                  /\ c_peer' = [c_peer EXCEPT ![s] = interested]
                  /\ c_out' = NoMsg
                  /\ UNCHANGED c_budget
             ELSE IF fail
             THEN /\ c_peer' = [c_peer EXCEPT ![s] = disconnect_own_thread(unchoked)]
                  /\ c_out' = NoMsg
                  /\ c_budget' = c_budget - 1
             ELSE /\ c_peer' = [c_peer EXCEPT ![s] = unchoked]
                  /\ c_out' = [type |-> "unchoke", peer |-> s]
                  /\ UNCHANGED c_budget
    /\ UNCHANGED <<c_torrent, c_pm, c_disk>>
    /\ UNCHANGED <<k_vars, p_vars, t_vars>>

\* FileManager.read_block: the number of bytes it returns (0: None), the
\* slice [block_offset, block_offset + block_length) of the piece read back
c_read_block(t, disk, piece_index, block_offset, block_length) ==
    IF disk[piece_index] = "ok"
       /\ block_offset + block_length <= get_piece_length(t, piece_index)
    THEN block_length
    ELSE 0

\* a _handle_request that does not look at am_choking
request_is_served_choking(peer, pm, piece_index) == have_piece(pm, piece_index)

\* Peer._handle_request: "if not self.am_choking and
\* self.piece_manager.have_piece(piece_index)"
request_is_served(peer, pm, piece_index) ==
    ~peer.am_choking /\ have_piece(pm, piece_index)

\* Peer._handle_request with Peer._send_piece_block: the block is sent when
\* the remote side is unchoked, the piece is completed and read_block returns
\* bytes; block_length is compared with nothing but the end of the piece.
\* The remote side asks at offset 0 or 16384 for a short block, a full block
\* or one byte more than a full block.
c_RecvRequest(s) ==
    /\ c_peer[s].phase = "open" /\ c_peer[s].thr = "idle"
    /\ \E piece_index \in PieceIndices(c_torrent), block_offset \in {0, BLOCK_SIZE},
          block_length \in {LastBlockBytes, BLOCK_SIZE, BLOCK_SIZE + 1},
          fail \in SendFailures :
         LET sent == IF request_is_served(c_peer[s], c_pm, piece_index)
                     THEN c_read_block(c_torrent, c_disk, piece_index,
                                       block_offset, block_length)
                     ELSE 0
         IN  IF sent = 0
             THEN /\ ~fail
                  /\ c_out' = NoMsg
                  /\ UNCHANGED <<c_peer, c_budget>>
             ELSE IF fail
             THEN /\ c_peer' = [c_peer EXCEPT ![s] = disconnect_own_thread(c_peer[s])]
                  /\ c_out' = NoMsg
                  /\ c_budget' = c_budget - 1
             ELSE /\ c_out' = [type |-> "piece", peer |-> s, piece_index |-> piece_index,
                               block_offset |-> block_offset, length |-> sent]
                  /\ UNCHANGED <<c_peer, c_budget>>
    /\ UNCHANGED <<c_torrent, c_pm, c_disk>>
    /\ UNCHANGED <<k_vars, p_vars, t_vars>>

\* a download from one peer that has every piece, nothing on disk, without
\* faults of the environment; the connection to the other peer failed.  The
\* torrent has pieces of up to BlocksPerPiece blocks and a content of some
\* whole blocks and 1, LastBlockBytes or BLOCK_SIZE bytes more.
InitTiling ==
    /\ c_torrent \in {MkTorrent(b * BLOCK_SIZE, n * BLOCK_SIZE + r) :
                         b \in 1 .. BlocksPerPiece,
                         n \in 0 .. (NumPiecesBound * BlocksPerPiece - 1),
                         r \in {1, LastBlockBytes, BLOCK_SIZE}}
    /\ c_disk = [i \in PieceIndices(c_torrent) |-> "none"]
    /\ c_pm = PM_init(c_torrent, c_disk)
    /\ c_peer = [s \in Peers |->
                    IF s = "A"
                    THEN [NewPeer EXCEPT !.phase = "open", !.thr = "idle",
                                         !.have_pieces = PieceIndices(c_torrent),
                                         !.am_interested = TRUE]
                    ELSE [NewPeer EXCEPT !.phase = "closed"]]
    /\ c_out = NoMsg
    /\ c_budget = 0

NextTiling ==
    \/ \E s \in Peers : c_RecvUnchoke(s)
    \/ \E s \in Peers : c_RecvPiece(s)
    \/ \E s \in Peers : c_PumpStep(s)

\* the largest length prefix the remote sides of the framing runs send:
\* one more than 2^17 + 13
OversizeFrame == 131086

\* Peer._message_loop reading the 4 bytes of a length prefix that is not 0:
\* whatever message_length is, it goes on to _receive_exact(message_length)
c_RecvPrefix(s) ==
    /\ c_peer[s].phase = "open" /\ c_peer[s].thr = "idle"
    /\ \E message_length \in {1, 13, OversizeFrame - 1, OversizeFrame} :
         c_peer' = [c_peer EXCEPT ![s].thr = "payload",
                                  ![s].message_length = message_length]
    /\ c_out' = NoMsg
    /\ UNCHANGED <<c_torrent, c_pm, c_disk, c_budget>>
    /\ UNCHANGED <<k_vars, p_vars, t_vars>>

\* Peer._message_loop after the prefix: the payload arrives and
\* _handle_message is given a message it ignores (an id it does not know or
\* a payload length its handler rejects), or recv fails and the loop ends in
\* disconnect()
c_RecvPayload(s) ==
    /\ c_peer[s].thr = "payload"
    /\ \E arrived \in BOOLEAN :
         c_peer' = [c_peer EXCEPT ![s] =
             IF arrived /\ c_peer[s].phase = "open"
             THEN [@ EXCEPT !.thr = "idle", !.message_length = 0]
             ELSE [disconnect_own_thread(@) EXCEPT !.message_length = 0]]
    /\ c_out' = NoMsg
    /\ UNCHANGED <<c_torrent, c_pm, c_disk, c_budget>>
    /\ UNCHANGED <<k_vars, p_vars, t_vars>>

\* the steps of a run in which the remote sides send frames of any length
NextFrame ==
    \/ \E s \in Peers : c_Connect(s)
    \/ \E s \in Peers : c_RecvPrefix(s)
    \/ \E s \in Peers : c_RecvPayload(s)
    \/ \E s \in Peers : c_RecvUnchoke(s)
    \/ \E s \in Peers : c_RecvHave(s)
    \/ \E s \in Peers : c_LoopExit(s)

\* a download from peers whose handshake may carry another torrent's info
\* hash, nothing on disk, without faults of the environment
InitHandshake ==
    /\ c_torrent = DefaultTorrent
    /\ c_disk = [i \in PieceIndices(c_torrent) |-> "none"]
    /\ c_pm = PM_init(c_torrent, c_disk)
    /\ c_peer = [s \in Peers |-> NewPeer]
    /\ c_out = NoMsg
    /\ c_budget = 0

NextHandshake ==
    \/ \E s \in Peers : c_Handshake(s)
    \/ \E s \in Peers : c_RecvChoke(s)
    \/ \E s \in Peers : c_RecvUnchoke(s)
    \/ \E s \in Peers : c_RecvHave(s)
    \/ \E s \in Peers : c_RecvBitfield(s)
    \/ \E s \in Peers : c_RecvPiece(s)
    \/ \E s \in Peers : c_PumpStep(s)

\* the steps of a run in which the remote sides ask for blocks
NextUpload ==
    \/ \E s \in Peers : c_Connect(s)
    \/ \E s \in Peers : c_RecvInterested(s)
    \/ \E s \in Peers : c_RecvRequest(s)
    \/ \E s \in Peers : c_Disconnect(s)

\* more than request_timeout (60 s) pass: every request made before is old
\* for Piece.get_next_block_request
AgeRequests ==
    /\ \E i \in PieceIndices(c_torrent) : \E k \in SeqIndices(c_pm.pieces[i].blocks) :
          c_pm.pieces[i].blocks[k].requested /\ ~c_pm.pieces[i].blocks[k].aged
    /\ c_pm' = [c_pm EXCEPT !.pieces = [i \in PieceIndices(c_torrent) |->
          [c_pm.pieces[i] EXCEPT !.blocks = [k \in SeqIndices(c_pm.pieces[i].blocks) |->
              [c_pm.pieces[i].blocks[k] EXCEPT !.aged = c_pm.pieces[i].blocks[k].requested]]]]]
    /\ c_out' = NoMsg
    /\ UNCHANGED <<c_torrent, c_disk, c_peer>>
    /\ UNCHANGED <<k_vars, p_vars, t_vars>>

\* a remote side that lets a request grow old
c_Age ==
    /\ c_budget > 0
    /\ c_budget' = c_budget - 1
    /\ AgeRequests

\* the passing of request_timeout in a run of fast peers: it is long against
\* the time a thread spends inside the loop of _request_pieces
c_Timeout ==
    /\ \A s \in Peers : c_peer[s].thr # "pump"
    /\ AgeRequests
    /\ UNCHANGED c_budget

\* the bytes a piece's region of the output files holds when the client
\* starts: nothing, the piece, or something else
InitComplete ==
    /\ c_torrent = DefaultTorrent
    /\ c_disk \in [PieceIndices(DefaultTorrent) -> {"none", "ok"}]
    /\ c_pm = PM_init(c_torrent, c_disk)
    /\ c_peer = [s \in Peers |-> NewPeer]
    /\ c_out = NoMsg
    /\ c_budget = MaxFaults

NextComplete ==
    \/ \E s \in Peers : c_Connect(s)
    \/ \E s \in Peers : c_ConnectFail(s)
    \/ \E s \in Peers : c_RecvChoke(s)
    \/ \E s \in Peers : c_RecvUnchoke(s)
    \/ \E s \in Peers : c_RecvHave(s)
    \/ \E s \in Peers : c_RecvBitfield(s)
    \/ \E s \in Peers : c_RecvPiece(s)
    \/ \E s \in Peers : c_RecvPieceOutOfRange(s)
    \/ \E s \in Peers : c_PumpStep(s)
    \/ \E s \in Peers : c_LoopExit(s)
    \/ \E s \in Peers : c_KeepAliveSendFail(s)
    \/ \E s \in Peers : c_Disconnect(s)
    \/ c_Age

\* blocks of the single piece of the torrent of the session-drop runs
DropBlocks == 4

\* two fast, honest peers and a torrent of one piece of DropBlocks blocks,
\* nothing on disk; each peer is connected and has sent the bitfield of a
\* seeder, which _handle_bitfield answered with interested
InitDrop ==
    /\ c_torrent = MkTorrent(DropBlocks * BLOCK_SIZE, DropBlocks * BLOCK_SIZE)
    /\ c_disk = [i \in PieceIndices(c_torrent) |-> "none"]
    /\ c_pm = PM_init(c_torrent, c_disk)
    /\ c_peer = [s \in Peers |->
                    [NewPeer EXCEPT !.phase = "open", !.thr = "idle",
                                    !.have_pieces = PieceIndices(c_torrent),
                                    !.am_interested = TRUE]]
    /\ c_out = NoMsg
    /\ c_budget = 0

\* the steps of such a run; a peer that unchoked does not choke again
NextDrop ==
    \/ \E s \in Peers : c_RecvUnchoke(s)
    \/ \E s \in Peers : c_RecvPiece(s)
    \/ \E s \in Peers : c_PumpStep(s)
    \/ \E s \in Peers : c_LoopExit(s)
    \/ \E s \in Peers : c_Disconnect(s)
    \/ c_Timeout


(***************************************************************************)
(* Properties of the "complete" implementation.                            *)
(***************************************************************************)
\* C1: every piece the piece manager records as completed has its bytes on
\* disk, and they are the bytes of the expected hash -- also after
\* write_piece reported a failure and for the pieces marked at resume.
C1_VerifiedOnDisk ==
    \A p \in c_pm.completed_pieces : c_disk[p] = "ok"

\* a request (piece_index, block_offset, block_length) of torrent t is well
\* formed
WellFormedRequest(t, piece_index, block_offset, block_length) ==
    /\ piece_index \in PieceIndices(t)
    /\ block_offset % BLOCK_SIZE = 0
    /\ block_offset >= 0 /\ block_offset < get_piece_length(t, piece_index)
    /\ block_length > 0 /\ block_length <= BLOCK_SIZE
    /\ block_offset + block_length <= get_piece_length(t, piece_index)

\* C7: every request message sent, every request the piece manager tracks
\* and every request in a Peer's pending_requests names a piece of the
\* torrent, an offset that is a multiple of 16384 inside the piece and a
\* length of at most 16384 that ends inside the piece, whatever have and
\* bitfield messages the remote side sent.
C7_RequestsWellFormed ==
    /\ c_out.type = "request" =>
          WellFormedRequest(c_torrent, c_out.piece_index, c_out.block_offset,
                            c_out.block_length)
    /\ \A r \in c_pm.pending_requests \cup UNION {c_peer[s].pending_requests : s \in Peers} :
          /\ r[1] \in PieceIndices(c_torrent)
          /\ LET k == BlockAt(c_pm.pieces[r[1]], r[2])
             IN  /\ k # 0
                 /\ WellFormedRequest(c_torrent, r[1], r[2],
                                      c_pm.pieces[r[1]].blocks[k].length)

\* C7 witness: a Peer whose remote side announced an index that is no piece
\* still holds the request for the short final block it sent before
C7_Witness ==
    \E s \in Peers :
        /\ c_torrent.num_pieces \in c_peer[s].have_pieces
        /\ <<c_torrent.num_pieces - 1, 0>> \in c_peer[s].pending_requests
        /\ get_piece_length(c_torrent, c_torrent.num_pieces - 1) < BLOCK_SIZE

\* the block of the piece manager a pending request (piece, offset) names
RequestedBlock(pm, r) == pm.pieces[r[1]].blocks[BlockAt(pm.pieces[r[1]], r[2])]

\* C4: in the step that closes a Peer, every request pending on it is given
\* back to the piece manager (no longer requested, no longer tracked), and
\* the blocks already received stay received.
C4_CloseReturnsPending ==
    [][\A s \in Peers :
          (c_peer[s].phase = "open" /\ c_peer'[s].phase = "closed") =>
              /\ \A r \in c_peer[s].pending_requests :
                    /\ ~RequestedBlock(c_pm', r).requested
                    /\ r \notin c_pm'.pending_requests
              /\ \A i \in PieceIndices(c_torrent) :
                    \A k \in SeqIndices(c_pm.pieces[i].blocks) :
                       c_pm.pieces[i].blocks[k].received
                           => c_pm'.pieces[i].blocks[k].received]_c_vars

(***************************************************************************)
(* piece_manager_client.py: Piece.                                         *)
(***************************************************************************)
\* Piece.__init__ with Piece._create_blocks
k_NewPiece(t, i) ==
    LET bs == _create_blocks(get_piece_length(t, i))
    IN  [size |-> get_piece_length(t, i),
         state |-> "pending",
         blocks |-> [j \in 1 .. Len(bs) |-> NewBlock(bs[j])],
         downloaded_blocks |-> 0]

\* Piece.get_pending_blocks, as block positions
get_pending_blocks(piece) ==
    {j \in SeqIndices(piece.blocks) :
        ~piece.blocks[j].requested /\ ~piece.blocks[j].received}

\* Piece.get_requested_blocks, as block positions
get_requested_blocks(piece) ==
    {j \in SeqIndices(piece.blocks) :
        piece.blocks[j].requested /\ ~piece.blocks[j].received}

\* Piece.reset_expired_blocks: requests older than block_timeout (30 s)
reset_expired_blocks(piece) ==
    [piece EXCEPT !.blocks = [j \in SeqIndices(piece.blocks) |->
        IF piece.blocks[j].requested /\ ~piece.blocks[j].received /\ piece.blocks[j].aged
        THEN [piece.blocks[j] EXCEPT !.requested = FALSE, !.aged = FALSE]
        ELSE piece.blocks[j]]]

\* Piece.mark_block_requested
mark_block_requested(piece, j) ==
    [piece EXCEPT !.blocks[j].requested = TRUE, !.blocks[j].aged = FALSE,
                  !.state = IF piece.state = "pending" THEN "downloading" ELSE piece.state]

\* Piece._reset_blocks
_reset_blocks(piece) ==
    [piece EXCEPT !.downloaded_blocks = 0,
                  !.blocks = [j \in SeqIndices(piece.blocks) |->
                      [piece.blocks[j] EXCEPT !.requested = FALSE, !.received = FALSE,
                                              !.data = "none", !.aged = FALSE]]]

\* Piece._verify_piece: the piece afterwards and the value returned
_verify_piece(piece) ==
    IF HashMatches(piece)
    THEN [piece |-> [piece EXCEPT !.state = "completed"], result |-> TRUE]
    ELSE [piece |-> _reset_blocks([piece EXCEPT !.state = "failed"]), result |-> FALSE]

\* Piece.add_block_data: the piece afterwards and the value returned.
\* downloaded_blocks counts the calls that stored a block.
add_block_data(piece, offset, dlen, data) ==
    LET js == {j \in SeqIndices(piece.blocks) :
                  piece.blocks[j].offset = offset /\ piece.blocks[j].length = dlen}
    IN  IF js = {}
        THEN [piece |-> piece, result |-> FALSE]
        ELSE LET j == CHOOSE x \in js : TRUE
                 stored == [piece EXCEPT !.blocks[j].data = data,
                                         !.blocks[j].received = TRUE,
                                         !.downloaded_blocks = @ + 1]
             IN  IF stored.downloaded_blocks = Len(stored.blocks)
                 THEN _verify_piece(stored)
                 ELSE [piece |-> stored, result |-> TRUE]

(***************************************************************************)
(* piece_manager_client.py: PieceManager.                                  *)
(***************************************************************************)
\* PieceManager.mark_piece_complete
mark_piece_complete(pm, piece_index) ==
    IF piece_index \in DOMAIN pm.pieces
    THEN [pm EXCEPT !.pieces[piece_index].state = "completed",
                    !.completed_pieces = @ \cup {piece_index},
                    !.total_downloaded = @ + pm.pieces[piece_index].size]
    ELSE pm

RECURSIVE MarkAll(_, _)
MarkAll(pm, indices) ==
    IF indices = {} THEN pm
    ELSE LET i == CHOOSE x \in indices : TRUE
         IN  MarkAll(mark_piece_complete(pm, i), indices \ {i})

\* PieceManager.__init__ followed by BitTorrentClient.initialize marking the
\* pieces FileManager.check_existing_pieces found valid on disk
k_PM_init(t, disk) ==
    MarkAll([pieces |-> [i \in PieceIndices(t) |-> k_NewPiece(t, i)],
             completed_pieces |-> {},
             total_downloaded |-> 0],
            {i \in PieceIndices(t) : disk[i] = "ok"})

\* PieceManager._select_piece raises KeyError for an index that is no piece
SelectKeyError(pm, available_pieces) ==
    \E i \in available_pieces \ pm.completed_pieces : i \notin DOMAIN pm.pieces

\* PieceManager._select_piece: the pieces it may return ({}: None).  A piece
\* in progress with unrequested blocks is preferred, else any "pending" one.
_select_piece(pm, needed_pieces) ==
    LET in_progress == {i \in needed_pieces :
                           /\ pm.pieces[i].state = "downloading"
                           /\ get_pending_blocks(pm.pieces[i]) # {}}
    IN  IF in_progress # {} THEN in_progress
        ELSE {i \in needed_pieces : pm.pieces[i].state = "pending"}

\* PieceManager.get_piece_to_download once _select_piece returned piece_index:
\* the engine afterwards and the request (NoMsg: None)
get_piece_to_download(pm, piece_index) ==
    LET piece == reset_expired_blocks(pm.pieces[piece_index])
        pending_blocks == get_pending_blocks(piece)
    IN  IF pending_blocks = {}
        THEN [pm |-> [pm EXCEPT !.pieces[piece_index] = piece], request |-> NoMsg]
        ELSE LET j == CHOOSE x \in pending_blocks : \A y \in pending_blocks : x <= y
             IN  [pm |-> [pm EXCEPT !.pieces[piece_index] = mark_block_requested(piece, j)],
                  request |-> [type |-> "request", piece_index |-> piece_index,
                               block_offset |-> piece.blocks[j].offset,
                               block_length |-> piece.blocks[j].length]]

\* PieceManager.get_next_pieces_for_peer: the (engine, requests) pairs it may
\* end with, for max_pieces calls of get_piece_to_download
RECURSIVE get_next_pieces_for_peer(_, _, _)
get_next_pieces_for_peer(pm, available_pieces, max_pieces) ==
    LET needed_pieces == available_pieces \ pm.completed_pieces
        selected == _select_piece(pm, needed_pieces)
    IN  IF max_pieces = 0 \/ selected = {}
        THEN {[pm |-> pm, requests |-> <<>>]}
        ELSE UNION {
               LET r == get_piece_to_download(pm, i)
               IN  IF r.request = NoMsg
                   THEN {[pm |-> r.pm, requests |-> <<>>]}
                   ELSE {[pm |-> rest.pm, requests |-> <<r.request>> \o rest.requests] :
                           rest \in get_next_pieces_for_peer(r.pm, available_pieces,
                                                             max_pieces - 1)}
               : i \in selected}

\* BitTorrentClient._on_piece_completed with have sent whatever write_piece
\* returned
on_piece_completed_unchecked(disk, piece_index, write_ok) ==
    [disk |-> write_piece(disk, piece_index, write_ok), have |-> TRUE]

\* BitTorrentClient._on_piece_completed: the disk afterwards and whether
\* send_have ran for the active peers (only when write_piece returned True)
_on_piece_completed(disk, piece_index, write_ok) ==
    [disk |-> write_piece(disk, piece_index, write_ok), have |-> write_ok]

\* PieceManager.add_block with BitTorrentClient._on_piece_completed as the
\* completion callback: the engine and the disk afterwards, and whether have
\* was sent.  The piece is in completed_pieces before the callback runs, and a
\* write_piece that returns False is only logged.
k_add_block(pm, disk, piece_index, block_offset, dlen, data, write_ok) ==
    IF piece_index \notin DOMAIN pm.pieces \/ pm.pieces[piece_index].state = "completed"
    THEN [pm |-> pm, disk |-> disk, have |-> FALSE]
    ELSE LET r == add_block_data(pm.pieces[piece_index], block_offset, dlen, data)
             pm1 == [pm EXCEPT !.pieces[piece_index] = r.piece,
                               !.total_downloaded = IF r.result THEN @ + dlen ELSE @]
         IN  IF r.result /\ r.piece.state = "completed"
             THEN LET cb == _on_piece_completed(disk, piece_index, write_ok)
                  IN  [pm |-> [pm1 EXCEPT !.completed_pieces = @ \cup {piece_index}],
                       disk |-> cb.disk, have |-> cb.have]
             ELSE IF r.result /\ r.piece.state = "failed"
             THEN [pm |-> [pm1 EXCEPT !.pieces[piece_index].state = "pending"],
                   disk |-> disk, have |-> FALSE]
             ELSE [pm |-> pm1, disk |-> disk, have |-> FALSE]

\* PieceManager.cleanup_expired_requests
cleanup_expired_requests(pm) ==
    [pm EXCEPT !.pieces = [i \in DOMAIN pm.pieces |->
        IF pm.pieces[i].state = "downloading"
        THEN LET piece == reset_expired_blocks(pm.pieces[i])
             IN  IF get_requested_blocks(piece) = {} /\ piece.downloaded_blocks = 0
                 THEN [piece EXCEPT !.state = "pending"]
                 ELSE piece
        ELSE pm.pieces[i]]]

\* PieceManager.is_complete
k_is_complete(pm, t) == Cardinality(pm.completed_pieces) = t.num_pieces

(***************************************************************************)
(* peer_client.py: PeerConnection and PeerManager.                         *)
(***************************************************************************)
\* PeerConnection.__init__ and PeerState.__init__, after a connect() that
\* succeeded
NewConnection(endpoint) ==
    [endpoint |-> endpoint, connected |-> TRUE, peer_choking |-> TRUE,
     am_interested |-> FALSE, pieces_available |-> {}, pending_requests |-> {}]

\* PeerConnection.can_request
can_request(conn) ==
    /\ conn.connected
    /\ ~conn.peer_choking
    /\ conn.am_interested
    /\ Cardinality(conn.pending_requests) < 10

\* position of the key in PeerManager.peers (0: not a key)
PeerKeyIndex(peers, conn, endpoint) ==
    LET ns == {n \in SeqIndices(peers) : conn[peers[n]].endpoint = endpoint}
    IN  IF ns = {} THEN 0 ELSE CHOOSE n \in ns : TRUE

\* an assignment that does not take effect
dict_set_lost(peers, conn, endpoint, sid) == peers

\* self.peers[peer_key] = peer: a new key is appended, the value of an
\* existing key is replaced
dict_set(peers, conn, endpoint, sid) ==
    LET n == PeerKeyIndex(peers, conn, endpoint)
    IN  IF n = 0 THEN Append(peers, sid) ELSE [peers EXCEPT ![n] = sid]

\* del self.peers[peer_key]
dict_del(peers, sid) == SelectSeq(peers, LAMBDA x : x # sid)

\* PeerManager.get_active_peers
get_active_peers(peers, conn) == SelectSeq(peers, LAMBDA sid : conn[sid].connected)

\* add_peer without the test "peer_key in self.peers"
add_peer_outcome_nodup(peers, conn, max_peers, endpoint) ==
    IF Len(peers) >= max_peers THEN "full" ELSE "connect"

\* PeerManager.add_peer up to the connection attempt: what it answers for
\* a candidate
add_peer_outcome(peers, conn, max_peers, endpoint) ==
    IF Len(peers) >= max_peers THEN "full"
    ELSE IF PeerKeyIndex(peers, conn, endpoint) # 0 THEN "duplicate"
    ELSE "connect"

\* the PeerConnection objects that are connected
ActiveSessions == {sid \in SeqIndices(k_conn) : k_conn[sid].connected}

\* _download_loop: pc is "wait" (in shutdown_event.wait), "request" (in the
\* loop over active_peers that sends requests) or "done" (left by break);
\* peers is the active_peers of the pass, todo what the loop has not visited
\* yet, queue the requests still to send to the head of todo
LoopWait == [pc |-> "wait", peers |-> <<>>, todo |-> <<>>, queue |-> <<>>]

\* BitTorrentClient._peer_discovery_loop offering one endpoint of the tracker
\* response to PeerManager.add_peer, which connects synchronously
k_AddPeer(endpoint) ==
    /\ endpoint \in k_cfg.endpoints
    /\ Len(k_conn) < k_cfg.max_conn
    /\ Len(get_active_peers(k_peers, k_conn)) < k_cfg.max_peers
    /\ \E connect_ok \in BOOLEAN :
         LET outcome == add_peer_outcome(k_peers, k_conn, k_cfg.max_peers, endpoint)
         IN  IF outcome = "connect" /\ connect_ok
             THEN /\ k_conn' = Append(k_conn, NewConnection(endpoint))
                  /\ k_peers' = dict_set(k_peers, k_conn, endpoint, Len(k_conn) + 1)
                  /\ k_out' = [type |-> "add_peer", endpoint |-> endpoint, result |-> "added"]
             ELSE /\ outcome = "connect" => ~connect_ok
                  /\ outcome # "connect" => connect_ok
                  /\ k_out' = [type |-> "add_peer", endpoint |-> endpoint,
                               result |-> IF outcome = "connect" THEN "failed" ELSE outcome]
                  /\ UNCHANGED <<k_conn, k_peers>>
    /\ UNCHANGED <<k_torrent, k_cfg, k_pm, k_disk, k_loop, k_budget>>
    /\ UNCHANGED <<c_vars, p_vars, t_vars>>

\* PeerConnection.disconnect
k_disconnect(conn) == [conn EXCEPT !.connected = FALSE]

\* PeerManager.cleanup_dead_peers: remove_peer (disconnect, then del) for
\* every peer that is not connected or was silent for 120 s
k_CleanupDeadPeers ==
    /\ k_peers # <<>>
    /\ \E silent \in SUBSET {sid \in ActiveSessions : PeerKeyIndex(k_peers, k_conn, k_conn[sid].endpoint) # 0} :
         LET dead == {k_peers[n] : n \in SeqIndices(k_peers)} \ (ActiveSessions \ silent)
         IN  /\ dead # {}
             /\ silent # {} => k_budget > 0
             /\ k_budget' = IF silent # {} THEN k_budget - 1 ELSE k_budget
             /\ k_conn' = [sid \in SeqIndices(k_conn) |->
                              IF sid \in dead THEN k_disconnect(k_conn[sid]) ELSE k_conn[sid]]
             /\ k_peers' = SelectSeq(k_peers, LAMBDA sid : sid \notin dead)
    /\ k_out' = NoMsg
    /\ UNCHANGED <<k_torrent, k_cfg, k_pm, k_disk, k_loop>>
    /\ UNCHANGED <<c_vars, p_vars, t_vars>>

\* a receive thread is blocked in recv
Receiving(sid) == sid \in SeqIndices(k_conn) /\ k_conn[sid].connected

\* PeerConnection._handle_message, CHOKE
k_RecvChoke(sid) ==
    /\ Receiving(sid) /\ ~k_conn[sid].peer_choking
    /\ k_conn' = [k_conn EXCEPT ![sid].peer_choking = TRUE]
    /\ k_out' = NoMsg
    /\ UNCHANGED <<k_torrent, k_cfg, k_pm, k_disk, k_peers, k_loop, k_budget>>
    /\ UNCHANGED <<c_vars, p_vars, t_vars>>

\* PeerConnection._handle_message, UNCHOKE
k_RecvUnchoke(sid) ==
    /\ Receiving(sid) /\ k_conn[sid].peer_choking
    /\ k_conn' = [k_conn EXCEPT ![sid].peer_choking = FALSE]
    /\ k_out' = NoMsg
    /\ UNCHANGED <<k_torrent, k_cfg, k_pm, k_disk, k_peers, k_loop, k_budget>>
    /\ UNCHANGED <<c_vars, p_vars, t_vars>>

\* PeerConnection._handle_message, HAVE: the index is not checked
k_RecvHave(sid) ==
    /\ Receiving(sid)
    /\ \E piece_index \in WireIndices(k_torrent) :
         /\ piece_index \notin k_conn[sid].pieces_available
         /\ k_conn' = [k_conn EXCEPT ![sid].pieces_available = @ \cup {piece_index}]
    /\ k_out' = NoMsg
    /\ UNCHANGED <<k_torrent, k_cfg, k_pm, k_disk, k_peers, k_loop, k_budget>>
    /\ UNCHANGED <<c_vars, p_vars, t_vars>>

\* PeerConnection._handle_bitfield: bits past num_pieces are not looked at
k_RecvBitfield(sid) ==
    /\ Receiving(sid)
    /\ \E bits \in Bitfields(k_torrent) :
         /\ ~((bits \cap PieceIndices(k_torrent)) \subseteq k_conn[sid].pieces_available)
         /\ k_conn' = [k_conn EXCEPT ![sid].pieces_available =
                          @ \cup (bits \cap PieceIndices(k_torrent))]
    /\ k_out' = NoMsg
    /\ UNCHANGED <<k_torrent, k_cfg, k_pm, k_disk, k_peers, k_loop, k_budget>>
    /\ UNCHANGED <<c_vars, p_vars, t_vars>>

\* the downloaded counter is followed up to this many blocks past the length
\* of the torrent
MaxCounted == 2

\* the number of pieces of the torrent a seeder is started on
SeedPieces == 3

\* the files of a torrent written through the file store: how many, how
\* long, and the piece length
StoreFiles == 2
StoreFileBytes == 3
StorePieceBytes == 4

\* the compact peer lists of a tracker response: how many endpoints, and the
\* largest value of a byte
CompactPeers == 2
CompactByteMax == 1

\* the request the remote side answers next: it serves the requests it
\* holds in the order of their position in the torrent
NextServed(pending_requests) ==
    {req \in pending_requests :
        \A q \in pending_requests :
            req[1] < q[1] \/ (req[1] = q[1] /\ req[2] <= q[2])}

\* PeerConnection.send_have run by BitTorrentClient._on_piece_completed for
\* every peer of PeerManager.get_active_peers (NoMsg: send_have did not run)
HaveMsg(have, piece_index) ==
    IF have
    THEN [type |-> "have", piece_index |-> piece_index, peers |-> ActiveSessions]
    ELSE NoMsg

\* PeerConnection._handle_piece for the answer to a pending request, with
\* BitTorrentClient._peer_message_handler handing the block to the engine
k_RecvPiece(sid) ==
    /\ Receiving(sid)
    /\ k_pm.total_downloaded < k_torrent.total_length + MaxCounted * BLOCK_SIZE
    /\ \E req \in NextServed(k_conn[sid].pending_requests), payload \in Payloads,
          write_ok \in (IF k_budget > 0 THEN {TRUE, FALSE} ELSE {TRUE}) :
         LET dlen == IF payload = "short" THEN req[3] - 1 ELSE req[3]
             r == k_add_block(k_pm, k_disk, req[1], req[2], dlen,
                              PayloadData(payload), write_ok)
         IN  /\ payload # "ok" => k_budget > 0
             /\ ~write_ok => (payload = "ok" /\ req[1] \in r.pm.completed_pieces
                              /\ req[1] \notin k_pm.completed_pieces)
             /\ k_pm' = r.pm
             /\ k_disk' = r.disk
             /\ k_conn' = [k_conn EXCEPT ![sid].pending_requests =
                              @ \ {<<req[1], req[2], dlen>>}]
             /\ k_budget' = IF payload # "ok" \/ ~write_ok THEN k_budget - 1 ELSE k_budget
             /\ k_out' = HaveMsg(r.have, req[1])
    /\ UNCHANGED <<k_torrent, k_cfg, k_peers, k_loop>>
    /\ UNCHANGED <<c_vars, p_vars, t_vars>>

\* PeerConnection._receive_loop leaving its loop (recv returned nothing or
\* failed) and calling disconnect()
k_ReceiveLoopExit(sid) ==
    /\ Receiving(sid)
    /\ k_conn' = [k_conn EXCEPT ![sid] = k_disconnect(k_conn[sid])]
    /\ k_out' = NoMsg
    /\ UNCHANGED <<k_torrent, k_cfg, k_pm, k_disk, k_peers, k_loop, k_budget>>
    /\ UNCHANGED <<c_vars, p_vars, t_vars>>

\* more than block_timeout (30 s) pass: every request made before is old
k_Age ==
    /\ k_budget > 0
    /\ \E i \in PieceIndices(k_torrent) : get_requested_blocks(k_pm.pieces[i]) # {}
    /\ k_pm' = [k_pm EXCEPT !.pieces = [i \in PieceIndices(k_torrent) |->
          [k_pm.pieces[i] EXCEPT !.blocks = [j \in SeqIndices(k_pm.pieces[i].blocks) |->
              [k_pm.pieces[i].blocks[j] EXCEPT !.aged =
                  k_pm.pieces[i].blocks[j].requested /\ ~k_pm.pieces[i].blocks[j].received]]]]]
    /\ k_budget' = k_budget - 1
    /\ k_out' = NoMsg
    /\ UNCHANGED <<k_torrent, k_cfg, k_disk, k_conn, k_peers, k_loop>>
    /\ UNCHANGED <<c_vars, p_vars, t_vars>>

(***************************************************************************)
(* main_client.py: BitTorrentClient._download_loop.                        *)
(***************************************************************************)
\* the top of a pass: the progress update, the completion test, and
\* active_peers taken from the peer manager
k_LoopBegin ==
    /\ k_loop.pc = "wait"
    /\ k_loop' = IF k_is_complete(k_pm, k_torrent)
                 THEN [LoopWait EXCEPT !.pc = "done"]
                 ELSE LET active_peers == get_active_peers(k_peers, k_conn)
                      IN  [pc |-> "request", peers |-> active_peers,
                           todo |-> active_peers, queue |-> <<>>]
    /\ k_out' = NoMsg
    /\ UNCHANGED <<k_torrent, k_cfg, k_pm, k_disk, k_conn, k_peers, k_budget>>
    /\ UNCHANGED <<c_vars, p_vars, t_vars>>

\* "if peer.can_request(): requests = get_next_pieces_for_peer(...)" for the
\* next peer of active_peers.  A KeyError of _select_piece ends the pass in
\* the except clause of the loop.
k_LoopCheck ==
    /\ k_loop.pc = "request" /\ k_loop.queue = <<>> /\ k_loop.todo # <<>>
    /\ LET peer == k_conn[Head(k_loop.todo)]
       IN  IF ~can_request(peer)
           THEN /\ k_loop' = [k_loop EXCEPT !.todo = Tail(@)]
                /\ UNCHANGED k_pm
           ELSE IF SelectKeyError(k_pm, peer.pieces_available)
           THEN /\ k_loop' = LoopWait
                /\ UNCHANGED k_pm
           ELSE \E r \in get_next_pieces_for_peer(k_pm, peer.pieces_available, 5) :
                  /\ k_pm' = r.pm
                  /\ k_loop' = IF r.requests = <<>>
                               THEN [k_loop EXCEPT !.todo = Tail(@)]
                               ELSE [k_loop EXCEPT !.queue = r.requests]
    /\ k_out' = NoMsg
    /\ UNCHANGED <<k_torrent, k_cfg, k_disk, k_conn, k_peers, k_budget>>
    /\ UNCHANGED <<c_vars, p_vars, t_vars>>

\* PeerConnection.send_request for the next request of the list
k_LoopSend ==
    /\ k_loop.pc = "request" /\ k_loop.queue # <<>>
    /\ LET sid == Head(k_loop.todo)
           req == Head(k_loop.queue)
       IN  \E fail \in (IF k_budget > 0 THEN {FALSE, TRUE} ELSE {FALSE}) :
             IF ~k_conn[sid].connected
             THEN /\ ~fail
                  /\ k_out' = NoMsg
                  /\ UNCHANGED <<k_conn, k_budget>>
             ELSE IF fail
             THEN /\ k_conn' = [k_conn EXCEPT ![sid] = k_disconnect(k_conn[sid])]
                  /\ k_budget' = k_budget - 1
                  /\ k_out' = NoMsg
             ELSE /\ k_conn' = [k_conn EXCEPT ![sid].pending_requests = @ \cup
                        {<<req.piece_index, req.block_offset, req.block_length>>}]
                  /\ k_out' = [req EXCEPT !.type = "request"] @@ [peer |-> sid]
                  /\ UNCHANGED k_budget
    /\ k_loop' = IF Tail(k_loop.queue) = <<>>
                 THEN [k_loop EXCEPT !.queue = <<>>, !.todo = Tail(@)]
                 ELSE [k_loop EXCEPT !.queue = Tail(@)]
    /\ UNCHANGED <<k_torrent, k_cfg, k_pm, k_disk, k_peers>>
    /\ UNCHANGED <<c_vars, p_vars, t_vars>>

\* the rest of the pass: send_interested to the peers of active_peers that
\* announced pieces, then PieceManager.cleanup_expired_requests
k_LoopFinish ==
    /\ k_loop.pc = "request" /\ k_loop.queue = <<>> /\ k_loop.todo = <<>>
    /\ LET snapshot == {k_loop.peers[n] : n \in SeqIndices(k_loop.peers)}
       IN  k_conn' = [sid \in SeqIndices(k_conn) |->
               IF sid \in snapshot /\ ~k_conn[sid].am_interested
                                   /\ k_conn[sid].pieces_available # {}
               THEN [k_conn[sid] EXCEPT !.am_interested = TRUE]
               ELSE k_conn[sid]]
    /\ k_pm' = cleanup_expired_requests(k_pm)
    /\ k_loop' = LoopWait
    /\ k_out' = NoMsg
    /\ UNCHANGED <<k_torrent, k_cfg, k_disk, k_peers, k_budget>>
    /\ UNCHANGED <<c_vars, p_vars, t_vars>>

\* blocks of the single piece of the torrent the download runs load
ClientBlocks == 12

\* PeerConnection objects a run creates
MaxConnections == 2

\* max_peers, the --max-peers option, is at most
MaxPeersBound == 2

\* the endpoints the trackers return
Endpoints == {"e1", "e2"}

\* the pieces FileManager.check_existing_pieces finds valid on disk
OnDisk(disk) == {i \in DOMAIN disk : disk[i] = "ok"}

\* a download from one peer
InitClient ==
    /\ k_torrent = DefaultTorrent
    /\ k_disk \in [PieceIndices(k_torrent) -> {"none", "ok"}]
    /\ k_cfg = [max_peers |-> 1, endpoints |-> {"e1"}, max_conn |-> 1,
                resumed |-> OnDisk(k_disk)]
    /\ k_pm = k_PM_init(k_torrent, k_disk)
    /\ k_conn = <<>>
    /\ k_peers = <<>>
    /\ k_loop = LoopWait
    /\ k_out = NoMsg
    /\ k_budget = MaxFaults

\* a download from one peer without faults of the environment: a torrent of
\* one piece of ClientBlocks blocks, nothing on disk
InitBurst ==
    /\ k_torrent = MkTorrent(ClientBlocks * BLOCK_SIZE,
                             (ClientBlocks - 1) * BLOCK_SIZE + LastBlockBytes)
    /\ k_cfg = [max_peers |-> 1, endpoints |-> {"e1"}, max_conn |-> 1, resumed |-> {}]
    /\ k_disk = [i \in PieceIndices(k_torrent) |-> "none"]
    /\ k_pm = k_PM_init(k_torrent, k_disk)
    /\ k_conn = <<>>
    /\ k_peers = <<>>
    /\ k_loop = LoopWait
    /\ k_out = NoMsg
    /\ k_budget = 0

\* a swarm: several endpoints, a torrent of one short piece
InitSwarm ==
    /\ k_torrent = MkTorrent(BLOCK_SIZE, LastBlockBytes)
    /\ k_disk \in [PieceIndices(k_torrent) -> {"none", "ok"}]
    /\ k_cfg \in {[max_peers |-> m, endpoints |-> Endpoints, max_conn |-> MaxConnections,
                     resumed |-> OnDisk(k_disk)] : m \in 1 .. MaxPeersBound}
    /\ k_pm = k_PM_init(k_torrent, k_disk)
    /\ k_conn = <<>>
    /\ k_peers = <<>>
    /\ k_loop = LoopWait
    /\ k_out = NoMsg
    /\ k_budget = MaxFaults

Sessions == 1 .. MaxConnections

\* the steps of a run in which no request grows older than block_timeout
NextClientNoTimeout ==
    \/ \E e \in Endpoints : k_AddPeer(e)
    \/ k_CleanupDeadPeers
    \/ \E sid \in Sessions : k_RecvChoke(sid)
    \/ \E sid \in Sessions : k_RecvUnchoke(sid)
    \/ \E sid \in Sessions : k_RecvHave(sid)
    \/ \E sid \in Sessions : k_RecvBitfield(sid)
    \/ \E sid \in Sessions : k_RecvPiece(sid)
    \/ \E sid \in Sessions : k_ReceiveLoopExit(sid)
    \/ k_LoopBegin
    \/ k_LoopCheck
    \/ k_LoopSend
    \/ k_LoopFinish

\* PieceManager.get_remaining_bytes (piece_manager_client.py)
get_remaining_bytes(pm, torrent) == torrent.total_length - pm.total_downloaded

\* BitTorrentClient.stop (main_client.py), called between two passes of the
\* download loop, up to the stopped announce: running is cleared, which ends
\* the loops, and announce_to_all is called with TrackerEvent.STOPPED (an
\* exception of it is logged and dropped) and with left taken from
\* get_remaining_bytes.  No cancel message is sent:
\* PeerConnection.send_cancel has no caller.
k_StopAnnounce ==
    /\ k_loop.pc \in {"wait", "done"}
    /\ k_loop' = [LoopWait EXCEPT !.pc = "announced"]
    /\ k_out' = [type |-> "stopped", left |-> get_remaining_bytes(k_pm, k_torrent)]
    /\ UNCHANGED <<k_torrent, k_cfg, k_pm, k_disk, k_conn, k_peers, k_budget>>
    /\ UNCHANGED <<c_vars, p_vars, t_vars>>

\* the rest of BitTorrentClient.stop: PeerManager.disconnect_all closes
\* every socket and clears the peers
k_StopDisconnect ==
    /\ k_loop.pc = "announced"
    /\ k_conn' = [sid \in SeqIndices(k_conn) |-> k_disconnect(k_conn[sid])]
    /\ k_peers' = <<>>
    /\ k_loop' = [LoopWait EXCEPT !.pc = "stopped"]
    /\ k_out' = NoMsg
    /\ UNCHANGED <<k_torrent, k_cfg, k_pm, k_disk, k_budget>>
    /\ UNCHANGED <<c_vars, p_vars, t_vars>>

\* the steps of a run that the user stops
NextStop ==
    \/ NextClientNoTimeout
    \/ k_StopAnnounce
    \/ k_StopDisconnect

NextClient ==
    \/ NextClientNoTimeout
    \/ k_Age

\* blocks of the single piece of the torrent of the runs with a peer that
\* sends blocks unasked
EagerBlocks == 3


\* PeerConnection._handle_piece for a piece message that answers no pending
\* request of the session (a block sent unasked, or sent again): discard()
\* finds nothing to remove and the block goes to the engine all the same
k_RecvUnsolicited(sid) ==
    /\ Receiving(sid)
    /\ k_pm.total_downloaded < MaxCounted * BLOCK_SIZE
    /\ \E i \in PieceIndices(k_torrent) : \E j \in SeqIndices(k_pm.pieces[i].blocks) :
         LET block == k_pm.pieces[i].blocks[j]
             r == k_add_block(k_pm, k_disk, i, block.offset, block.length, "ok", TRUE)
         IN  /\ <<i, block.offset, block.length>> \notin k_conn[sid].pending_requests
             /\ k_pm' = r.pm
             /\ k_disk' = r.disk
             /\ k_out' = HaveMsg(r.have, i)
    /\ UNCHANGED <<k_torrent, k_cfg, k_conn, k_peers, k_loop, k_budget>>
    /\ UNCHANGED <<c_vars, p_vars, t_vars>>

\* a download from one peer that also sends blocks it was not asked for,
\* without faults of the environment
InitEager ==
    /\ k_torrent = MkTorrent(EagerBlocks * BLOCK_SIZE,
                             (EagerBlocks - 1) * BLOCK_SIZE + LastBlockBytes)
    /\ k_cfg = [max_peers |-> 1, endpoints |-> {"e1"}, max_conn |-> 1, resumed |-> {}]
    /\ k_disk = [i \in PieceIndices(k_torrent) |-> "none"]
    /\ k_pm = k_PM_init(k_torrent, k_disk)
    /\ k_conn = <<>>
    /\ k_peers = <<>>
    /\ k_loop = LoopWait
    /\ k_out = NoMsg
    /\ k_budget = 0

\* the steps of such a run; the peer sends its bitfield, unchokes, and
\* stays connected
NextEager ==
    \/ \E e \in Endpoints : k_AddPeer(e)
    \/ \E sid \in Sessions : k_RecvUnchoke(sid)
    \/ \E sid \in Sessions : k_RecvBitfield(sid)
    \/ \E sid \in Sessions : k_RecvPiece(sid)
    \/ \E sid \in Sessions : k_RecvUnsolicited(sid)
    \/ k_LoopBegin
    \/ k_LoopCheck
    \/ k_LoopSend
    \/ k_LoopFinish

\* the count of published messages stops at
MaxEvents == 2

\* FileManager of file_manager.py defines write_block, read_block,
\* validate_piece, get_downloaded, close and read_piece; it has no write_piece
FileManagerHasWritePiece == FALSE

\* PieceManager.piece_length
piece_length(t, index) ==
    IF index = t.num_pieces - 1
    THEN t.total_length - index * t.piece_length
    ELSE t.piece_length

\* number of blocks of a piece, as receive_block and request_pieces compute it
num_blocks(t, index) == (piece_length(t, index) + BLOCK_SIZE - 1) \div BLOCK_SIZE

CountUp(n) == Min(n + 1, MaxEvents)

\* PieceManager.on_piece_received, the subscriber of 'piece_received', for a
\* piece whose hash matches (hash_ok) or not.  The call of the missing
\* write_piece raises AttributeError before have_pieces is touched.
on_piece_received(st, index, hash_ok) ==
    IF hash_ok
    THEN IF FileManagerHasWritePiece
         THEN [st EXCEPT !.have = @ \cup {index},
                         !.pieces[index] = <<>>,
                         !.failed = @ \ {index},
                         !.events[index].verified = CountUp(@)]
         ELSE st
    ELSE [st EXCEPT !.failed = @ \cup {index}, !.pieces[index] = <<>>]

\* PieceManager.receive_block(index, begin, block) for a block of dlen bytes
\* with content data
receive_block(t, st, index, begin, dlen, data) ==
    IF index >= t.num_pieces THEN st
    ELSE LET tracked == IF st.pieces[index] = <<>>
                        THEN [st EXCEPT !.pieces[index] =
                                 [b \in 1 .. num_blocks(t, index) |-> "none"]]
                        ELSE st
             block_index == begin \div BLOCK_SIZE
         IN  IF block_index >= Len(tracked.pieces[index]) THEN tracked
             ELSE IF dlen # Min(BLOCK_SIZE, piece_length(t, index) - begin) THEN tracked
             ELSE LET stored == [tracked EXCEPT !.pieces[index][block_index + 1] = data]
                      blocks == stored.pieces[index]
                  IN  IF \E b \in SeqIndices(blocks) : blocks[b] = "none"
                      THEN stored
                      ELSE IF \A b \in SeqIndices(blocks) : blocks[b] = "ok"
                      THEN LET published == [stored EXCEPT
                                                !.events[index].received = CountUp(@)]
                               handled == on_piece_received(published, index, TRUE)
                           IN  IF FileManagerHasWritePiece
                               THEN [handled EXCEPT !.failed = @ \ {index}]
                               ELSE handled
                      ELSE [stored EXCEPT
                               !.pieces[index] = [b \in SeqIndices(blocks) |-> "none"],
                               !.failed = @ \cup {index}]

\* the engine part of the state, as one record
PlainEngine == [pieces |-> p_pieces, have |-> p_have, failed |-> p_failed,
                events |-> p_events]

SetPlainEngine(st) ==
    /\ p_pieces' = st.pieces
    /\ p_have' = st.have
    /\ p_failed' = st.failed
    /\ p_events' = st.events

\* Peer.request_pieces: a request for every block of every piece that is not
\* in have_pieces and is set in the bitfield
request_pieces(t, have, bitfield) ==
    UNION {{<<index, b * BLOCK_SIZE,
              Min(BLOCK_SIZE, piece_length(t, index) - b * BLOCK_SIZE)>> :
               b \in 0 .. (num_blocks(t, index) - 1)} :
           index \in {i \in PieceIndices(t) : i \notin have /\ i \in bitfield}}

\* no file is written through FileManager.write_block
NoStore == [piece_length |-> 1, lengths |-> <<>>, data |-> <<>>, written |-> {}]

(***************************************************************************)
(* progress_manager.py.  A file name is the sequence of its dot-separated  *)
(* parts; a directory maps the names of its files to their content.        *)
(***************************************************************************)
ProgressPieces == 4
NoFiles == [n \in {} |-> 0]
NoPieceProgress == [i \in {} |-> 0]
NoProgressData == [have_pieces |-> {}, piece_progress |-> NoPieceProgress]

\* no PieceManager of piece_manager.py was constructed
NoProgress ==
    [dir |-> NoFiles, piece_progress |-> NoPieceProgress,
     saved |-> NoProgressData, pc |-> "off"]

\* PieceManager.progress_file: "progress.json" in the output directory
progress_file == <<"progress", "json">>

\* os.path.splitext(file_path)[0]
splitext_root(file_path) ==
    IF Len(file_path) > 1 THEN SubSeq(file_path, 1, Len(file_path) - 1) ELSE file_path

\* str and int of a dictionary key
Digits == <<"0", "1", "2", "3", "4", "5">>
str(i) == Digits[i + 1]
int(k) == CHOOSE i \in 0 .. (Len(Digits) - 1) : Digits[i + 1] = k

\* list(a set), in some order
RECURSIVE list(_)
list(S) ==
    IF S = {} THEN <<>>
    ELSE LET x == CHOOSE x \in S : TRUE IN <<x>> \o list(S \ {x})

\* json.dump of the progress data: the keys of piece_progress become strings
json_dump(progress_data) ==
    [have_pieces |-> list(progress_data.have_pieces),
     piece_progress |->
         [k \in {str(i) : i \in DOMAIN progress_data.piece_progress} |->
             progress_data.piece_progress[int(k)]]]

\* save_progress(file_path, progress_data): the directory afterwards
save_progress(dir, file_path, progress_data) ==
    LET target == splitext_root(file_path) \o <<"progress">>
    IN  [n \in DOMAIN dir \cup {target} |->
            IF n = target THEN json_dump(progress_data) ELSE dir[n]]

\* load_progress(file_path): the content read, or None (found FALSE)
load_progress(dir, file_path) ==
    LET target == file_path \o <<"progress">>
    IN  IF target \in DOMAIN dir
        THEN [found |-> TRUE, data |-> dir[target]]
        ELSE [found |-> FALSE, data |-> json_dump(NoProgressData)]

\* the progress data on_piece_received builds: have_pieces, and
\* piece_progress with 100 for the pieces it has and 0 for the other pieces
\* that were tracked
ProgressData(t) ==
    {[have_pieces |-> have,
      piece_progress |-> [i \in tracked |-> IF i \in have THEN 100 ELSE 0]] :
        have \in SUBSET PieceIndices(t),
        tracked \in SUBSET PieceIndices(t)}

\* the tail of PieceManager.on_piece_received: save_progress is called with
\* the progress file and the progress data
p_SaveProgress ==
    /\ p_progress.pc \in {"new", "saved", "started"}
    /\ \E progress_data \in {d \in ProgressData(p_torrent) :
                                 d.have_pieces \subseteq DOMAIN d.piece_progress} :
          p_progress' = [p_progress EXCEPT
                            !.dir = save_progress(@, progress_file, progress_data),
                            !.saved = progress_data,
                            !.pc = "saved"]
    /\ UNCHANGED <<p_torrent, p_pieces, p_have, p_failed, p_events, p_peer, p_seed,
                   p_store, p_budget>>
    /\ UNCHANGED <<c_vars, k_vars, t_vars>>

\* the engine is started again on the directory: PieceManager.__init__
\* without seed_mode
p_Restart ==
    /\ p_progress.pc \in {"new", "saved"}
    /\ LET saved_progress == load_progress(p_progress.dir, progress_file)
           have_pieces == {saved_progress.data.have_pieces[n] :
                             n \in SeqIndices(saved_progress.data.have_pieces)}
           piece_progress == [i \in {int(k) : k \in DOMAIN saved_progress.data.piece_progress}
                                |-> saved_progress.data.piece_progress[str(i)]]
       IN  IF saved_progress.found
           THEN /\ p_have' = have_pieces
                /\ p_progress' = [p_progress EXCEPT !.piece_progress = piece_progress,
                                                    !.pc = "started"]
           ELSE /\ p_have' = {}
                /\ p_progress' = [p_progress EXCEPT !.piece_progress = NoPieceProgress,
                                                    !.pc = "started"]
    /\ p_pieces' = [i \in PieceIndices(p_torrent) |-> <<>>]
    /\ p_failed' = {}
    /\ UNCHANGED <<p_torrent, p_events, p_peer, p_seed, p_store, p_budget>>
    /\ UNCHANGED <<c_vars, k_vars, t_vars>>

\* Client.__init__ with seed=False: the files are not read
NotSeeding(t) ==
    [mode |-> "off", disk |-> [i \in PieceIndices(t) |-> "none"], dropped |-> 0]

\* the thread of a Peer is not inside receive_block between its count of the
\* stored blocks and the hash check
NoPiece == -1

\* Peer.__init__ (peer.py)
p_NewPeer ==
    [phase |-> "new", choked |-> TRUE, bitfield |-> {}, asked |-> {}, verifying |-> NoPiece,
     interested |-> FALSE]

\* Peer.connect up to message_handler.start(): the handshake is done and the
\* message thread runs; the calling thread stands before send_interested
p_Connect(s) ==
    /\ p_peer[s].phase = "new"
    /\ p_peer' = [p_peer EXCEPT ![s].phase = "open"]
    /\ UNCHANGED <<p_torrent, p_progress, p_store, p_pieces, p_have, p_failed, p_events, p_seed, p_budget>>
    /\ UNCHANGED <<c_vars, k_vars, t_vars>>

\* the rest of Peer.connect on the calling thread: send_interested.  A send
\* that raises ends connect in its except clause, which closes the socket.
p_SendInterested(s) ==
    /\ p_peer[s].phase = "open" /\ ~p_peer[s].interested
    /\ \E fail \in (IF p_budget > 0 THEN {FALSE, TRUE} ELSE {FALSE}) :
         /\ p_peer' = IF fail
                      THEN [p_peer EXCEPT ![s].phase = "closed", ![s].asked = {}]
                      ELSE [p_peer EXCEPT ![s].interested = TRUE]
         /\ p_budget' = IF fail THEN p_budget - 1 ELSE p_budget
    /\ UNCHANGED <<p_torrent, p_progress, p_store, p_pieces, p_have, p_failed, p_events, p_seed>>
    /\ UNCHANGED <<c_vars, k_vars, t_vars>>

\* Peer.process_message, choke
p_RecvChoke(s) ==
    /\ p_peer[s].phase = "open" /\ ~p_peer[s].choked
    /\ p_peer' = [p_peer EXCEPT ![s].choked = TRUE]
    /\ UNCHANGED <<p_torrent, p_progress, p_store, p_pieces, p_have, p_failed, p_events, p_seed, p_budget>>
    /\ UNCHANGED <<c_vars, k_vars, t_vars>>

\* Peer.process_message, unchoke: request_pieces if a bitfield was received
p_RecvUnchoke(s) ==
    /\ p_peer[s].phase = "open"
    /\ p_peer' = [p_peer EXCEPT
          ![s].choked = FALSE,
          ![s].asked = @ \cup request_pieces(p_torrent, p_have, p_peer[s].bitfield)]
    /\ UNCHANGED <<p_torrent, p_progress, p_store, p_pieces, p_have, p_failed, p_events, p_seed, p_budget>>
    /\ UNCHANGED <<c_vars, k_vars, t_vars>>

\* Peer.process_message, bitfield: request_pieces if not choked
p_RecvBitfield(s) ==
    /\ p_peer[s].phase = "open"
    /\ \E bits \in Bitfields(p_torrent) :
         p_peer' = [p_peer EXCEPT
             ![s].bitfield = bits,
             ![s].asked = IF p_peer[s].choked THEN @
                          ELSE @ \cup request_pieces(p_torrent, p_have, bits)]
    /\ UNCHANGED <<p_torrent, p_progress, p_store, p_pieces, p_have, p_failed, p_events, p_seed, p_budget>>
    /\ UNCHANGED <<c_vars, k_vars, t_vars>>

\* Peer.process_message, piece: the answer to a request sent before, handed
\* to PieceManager.receive_block
p_RecvPiece(s) ==
    /\ p_peer[s].phase = "open"
    /\ \E req \in p_peer[s].asked, payload \in Payloads :
         /\ payload # "ok" => p_budget > 0
         /\ p_budget' = IF payload # "ok" THEN p_budget - 1 ELSE p_budget
         /\ SetPlainEngine(receive_block(p_torrent, PlainEngine, req[1], req[2],
                               IF payload = "short" THEN req[3] - 1 ELSE req[3],
                               PayloadData(payload)))
         /\ p_peer' = [p_peer EXCEPT ![s].asked = @ \ {req}]
    /\ UNCHANGED <<p_torrent, p_progress, p_store, p_seed>>
    /\ UNCHANGED <<c_vars, k_vars, t_vars>>

\* PieceManager.receive_block, run by the thread of Peer s without a lock, up
\* to the count of the stored blocks: the block is validated and stored;
\* with every block present the thread goes on to join and hash the piece
p_StoreBlock(s) ==
    /\ p_peer[s].phase = "open" /\ p_peer[s].verifying = NoPiece
    /\ \E req \in p_peer[s].asked, payload \in Payloads :
         LET index == req[1]
             dlen == IF payload = "short" THEN req[3] - 1 ELSE req[3]
             tracked == IF p_pieces[index] = <<>>
                        THEN [b \in 1 .. num_blocks(p_torrent, index) |-> "none"]
                        ELSE p_pieces[index]
             valid == dlen = Min(BLOCK_SIZE, piece_length(p_torrent, index) - req[2])
             stored == IF valid
                       THEN [tracked EXCEPT ![req[2] \div BLOCK_SIZE + 1] = PayloadData(payload)]
                       ELSE tracked
         IN  /\ payload # "ok" => p_budget > 0
             /\ p_budget' = IF payload # "ok" THEN p_budget - 1 ELSE p_budget
             /\ p_pieces' = [p_pieces EXCEPT ![index] = stored]
             /\ p_peer' = [p_peer EXCEPT
                    ![s].asked = @ \ {req},
                    ![s].verifying = IF valid /\ \A b \in SeqIndices(stored) : stored[b] # "none"
                                     THEN index ELSE NoPiece]
    /\ UNCHANGED <<p_torrent, p_progress, p_store, p_have, p_failed, p_events, p_seed>>
    /\ UNCHANGED <<c_vars, k_vars, t_vars>>

\* the rest of receive_block for the thread of Peer s: the blocks are joined
\* as they are now (a None among them raises TypeError, which is caught),
\* hashed, and the piece is published or reset
p_VerifyPiece(s) ==
    /\ p_peer[s].verifying # NoPiece
    /\ LET index == p_peer[s].verifying
           blocks == p_pieces[index]
       IN  IF \E b \in SeqIndices(blocks) : blocks[b] = "none"
           THEN UNCHANGED <<p_pieces, p_have, p_failed, p_events>>
           ELSE IF \A b \in SeqIndices(blocks) : blocks[b] = "ok"
           THEN SetPlainEngine(on_piece_received(
                    [PlainEngine EXCEPT !.events[index].received = CountUp(@)],
                    index, TRUE))
           ELSE SetPlainEngine([PlainEngine EXCEPT
                    !.pieces[index] = [b \in SeqIndices(blocks) |-> "none"],
                    !.failed = @ \cup {index}])
    /\ p_peer' = [p_peer EXCEPT ![s].verifying = NoPiece]
    /\ UNCHANGED <<p_torrent, p_progress, p_store, p_seed, p_budget>>
    /\ UNCHANGED <<c_vars, k_vars, t_vars>>

\* two peers that have every piece, unchoked, after request_pieces asked
\* each of them for every block
InitRace ==
    /\ p_torrent = DefaultTorrent
    /\ p_pieces = [i \in PieceIndices(p_torrent) |-> <<>>]
    /\ p_have = {}
    /\ p_failed = {}
    /\ p_events = [i \in PieceIndices(p_torrent) |-> [received |-> 0, verified |-> 0]]
    /\ p_peer = [s \in Peers |->
                    [p_NewPeer EXCEPT !.phase = "open", !.choked = FALSE,
                                      !.interested = TRUE,
                                      !.bitfield = PieceIndices(p_torrent),
                                      !.asked = request_pieces(p_torrent, {},
                                                               PieceIndices(p_torrent))]]
    /\ p_seed = NotSeeding(p_torrent)
    /\ p_store = NoStore
    /\ p_progress = NoProgress
    /\ p_budget = MaxFaults

NextRace ==
    \/ \E s \in Peers : p_StoreBlock(s)
    \/ \E s \in Peers : p_VerifyPiece(s)

\* Peer.handle_messages leaving its loop, or Peer.close
p_Close(s) ==
    /\ p_peer[s].phase = "open"
    /\ p_peer' = [p_peer EXCEPT ![s].phase = "closed", ![s].asked = {}]
    /\ UNCHANGED <<p_torrent, p_progress, p_store, p_pieces, p_have, p_failed, p_events, p_seed, p_budget>>
    /\ UNCHANGED <<c_vars, k_vars, t_vars>>

\* PieceManager.__init__ of piece_manager.py: nothing is tracked, and
\* load_progress finds no saved progress
InitPlain ==
    /\ p_torrent = DefaultTorrent
    /\ p_pieces = [i \in PieceIndices(p_torrent) |-> <<>>]
    /\ p_have = {}
    /\ p_failed = {}
    /\ p_events = [i \in PieceIndices(p_torrent) |-> [received |-> 0, verified |-> 0]]
    /\ p_peer = [s \in Peers |-> p_NewPeer]
    /\ p_seed = NotSeeding(p_torrent)
    /\ p_store = NoStore
    /\ p_progress = NoProgress
    /\ p_budget = MaxFaults

\* PieceManager._verify_all_pieces: the have set it builds (it raises at the
\* first piece that is unreadable or fails its hash).  PieceManager.__init__
\* calls it with seed_mode=True only, and Client.__init__ never passes
\* seed_mode.
_verify_all_pieces(t, disk) ==
    IF \A i \in PieceIndices(t) : disk[i] = "ok"
    THEN [raised |-> FALSE, have |-> PieceIndices(t)]
    ELSE [raised |-> TRUE, have |-> {}]

\* Client._start_seeding up to its accept loop: every index goes into
\* have_pieces unread, the server socket listens and Tracker.get_peers
\* announces the client
_start_seeding ==
    /\ p_seed.mode = "off"
    /\ \A s \in Peers : p_peer[s].phase = "new"
    /\ p_have' = p_have \cup PieceIndices(p_torrent)
    /\ p_seed' = [p_seed EXCEPT !.mode = "seeding"]
    /\ UNCHANGED <<p_torrent, p_progress, p_store, p_pieces, p_failed, p_events, p_peer, p_budget>>
    /\ UNCHANGED <<c_vars, k_vars, t_vars>>

\* the accept loop of Client._start_seeding for one incoming connection:
\* Peer.__init__ with is_seeding=True reads self.on_piece_requested, which
\* Peer does not define, so the AttributeError is caught and printed and the
\* connection gets neither handshake nor bitfield
p_Accept ==
    /\ p_seed.mode = "seeding"
    /\ p_seed.dropped < MaxEvents
    /\ p_seed' = [p_seed EXCEPT !.dropped = @ + 1]
    /\ UNCHANGED <<p_torrent, p_progress, p_store, p_pieces, p_have, p_failed, p_events, p_peer, p_budget>>
    /\ UNCHANGED <<c_vars, k_vars, t_vars>>

\* start_seeder.py: Client(seed=True) on a directory whose files hold, at
\* each piece, the right bytes, other bytes or nothing
InitSeed ==
    /\ p_torrent = MkTorrent(BLOCK_SIZE, (SeedPieces - 1) * BLOCK_SIZE + LastBlockBytes)
    /\ p_pieces = [i \in PieceIndices(p_torrent) |-> <<>>]
    /\ p_have = {}
    /\ p_failed = {}
    /\ p_events = [i \in PieceIndices(p_torrent) |-> [received |-> 0, verified |-> 0]]
    /\ p_peer = [s \in Peers |-> p_NewPeer]
    /\ \E disk \in [PieceIndices(p_torrent) -> {"ok", "bad", "none"}] :
         p_seed = [mode |-> "off", disk |-> disk, dropped |-> 0]
    /\ p_store = NoStore
    /\ p_progress = NoProgress
    /\ p_budget = 0

NextSeed ==
    \/ _start_seeding
    \/ p_Accept

\* FileManager._init_files: the 'offset' entry of every file, which is 0 in
\* multi-file mode too
FileOffset(lengths, k) == 0

\* FileManager.write_block from file k on: the bytes of the files afterwards.
\* offset is the absolute offset still to write at, block what is left of
\* the block.
RECURSIVE WriteFrom(_, _, _, _, _)
WriteFrom(lengths, data, k, offset, block) ==
    IF k > Len(lengths) \/ block = <<>>
    THEN data
    ELSE IF offset >= FileOffset(lengths, k) + lengths[k] \/ offset < FileOffset(lengths, k)
    THEN WriteFrom(lengths, data, k + 1, offset, block)
    ELSE LET file_offset == offset - FileOffset(lengths, k)
             to_write == Min(Len(block), lengths[k] - file_offset)
             written == [data EXCEPT ![k] = [b \in 1 .. lengths[k] |->
                            IF b - 1 >= file_offset /\ b - 1 < file_offset + to_write
                            THEN block[b - file_offset]
                            ELSE data[k][b]]]
         IN  WriteFrom(lengths, written, k + 1, offset + to_write,
                       SubSeq(block, to_write + 1, Len(block)))

\* FileManager.write_block(index, begin, block) with every file present
write_block(store, index, begin, block) ==
    [store EXCEPT !.data = WriteFrom(store.lengths, store.data, 1,
                                     index * store.piece_length + begin, block)]

RECURSIVE SumSeq(_)
SumSeq(q) == IF q = <<>> THEN 0 ELSE Head(q) + SumSeq(Tail(q))

\* the pieces of the content of a store and their lengths
StorePieces(store) ==
    0 .. ((SumSeq(store.lengths) + store.piece_length - 1) \div store.piece_length - 1)

StorePieceLength(store, index) ==
    Min(store.piece_length, SumSeq(store.lengths) - index * store.piece_length)

\* a completed piece goes to the files: byte i of piece index is given the
\* value of its absolute offset plus one
p_WriteBlock ==
    /\ \E index \in StorePieces(p_store) \ p_store.written :
         p_store' = [write_block(p_store, index, 0,
                                 [i \in 1 .. StorePieceLength(p_store, index) |->
                                     index * p_store.piece_length + i])
                     EXCEPT !.written = @ \cup {index}]
    /\ UNCHANGED <<p_torrent, p_progress, p_pieces, p_have, p_failed, p_events, p_peer, p_seed,
                   p_budget>>
    /\ UNCHANGED <<c_vars, k_vars, t_vars>>

\* a torrent of up to StoreFiles files of up to StoreFileBytes bytes with a
\* piece length of up to StorePieceBytes, the files present and empty of
\* content
InitStore ==
    /\ p_torrent = DefaultTorrent
    /\ p_pieces = [i \in PieceIndices(p_torrent) |-> <<>>]
    /\ p_have = {}
    /\ p_failed = {}
    /\ p_events = [i \in PieceIndices(p_torrent) |-> [received |-> 0, verified |-> 0]]
    /\ p_peer = [s \in Peers |-> p_NewPeer]
    /\ p_seed = NotSeeding(p_torrent)
    /\ \E n \in 1 .. StoreFiles : \E lengths \in [1 .. n -> 1 .. StoreFileBytes] :
         \E pl \in 1 .. StorePieceBytes :
           p_store = [piece_length |-> pl, lengths |-> lengths,
                      data |-> [k \in 1 .. n |-> [b \in 1 .. lengths[k] |-> 0]],
                      written |-> {}]
    /\ p_progress = NoProgress
    /\ p_budget = 0

NextStore == p_WriteBlock

\* the Peer objects of a run with three peers (Client.start creates one per
\* endpoint the tracker returned)
Swarm == {"A", "B", "C"}

\* three honest peers, each connected, with interested sent, still choking
\* and with no bitfield sent yet; nothing is tracked
InitFlood ==
    /\ p_torrent = DefaultTorrent
    /\ p_pieces = [i \in PieceIndices(p_torrent) |-> <<>>]
    /\ p_have = {}
    /\ p_failed = {}
    /\ p_events = [i \in PieceIndices(p_torrent) |-> [received |-> 0, verified |-> 0]]
    /\ p_peer = [s \in Swarm |-> [p_NewPeer EXCEPT !.phase = "open", !.interested = TRUE]]
    /\ p_seed = NotSeeding(p_torrent)
    /\ p_store = NoStore
    /\ p_progress = NoProgress
    /\ p_budget = 0

NextFlood ==
    \/ \E s \in Swarm : p_RecvChoke(s)
    \/ \E s \in Swarm : p_RecvUnchoke(s)
    \/ \E s \in Swarm : p_RecvBitfield(s)
    \/ \E s \in Swarm : p_RecvPiece(s)

NextPlain ==
    \/ \E s \in Peers : p_Connect(s)
    \/ \E s \in Peers : p_SendInterested(s)
    \/ \E s \in Peers : p_RecvChoke(s)
    \/ \E s \in Peers : p_RecvUnchoke(s)
    \/ \E s \in Peers : p_RecvBitfield(s)
    \/ \E s \in Peers : p_RecvPiece(s)
    \/ \E s \in Peers : p_Close(s)

(***************************************************************************)
(* Specifications.  A run executes one implementation; the variables of    *)
(* the others keep the values they have when that code is not started.     *)
(***************************************************************************)

CompleteNotStarted ==
    /\ c_torrent = DefaultTorrent
    /\ c_disk = [i \in PieceIndices(DefaultTorrent) |-> "none"]
    /\ c_pm = PM_init(c_torrent, c_disk)
    /\ c_peer = [s \in Peers |-> NewPeer]
    /\ c_out = NoMsg
    /\ c_budget = 0

ClientNotStarted ==
    /\ k_torrent = DefaultTorrent
    /\ k_cfg = [max_peers |-> 0, endpoints |-> {}, max_conn |-> 0, resumed |-> {}]
    /\ k_disk = [i \in PieceIndices(DefaultTorrent) |-> "none"]
    /\ k_pm = k_PM_init(k_torrent, k_disk)
    /\ k_conn = <<>>
    /\ k_peers = <<>>
    /\ k_loop = LoopWait
    /\ k_out = NoMsg
    /\ k_budget = 0

PlainNotStarted ==
    /\ p_torrent = DefaultTorrent
    /\ p_pieces = [i \in PieceIndices(p_torrent) |-> <<>>]
    /\ p_have = {}
    /\ p_failed = {}
    /\ p_events = [i \in PieceIndices(p_torrent) |-> [received |-> 0, verified |-> 0]]
    /\ p_peer = [s \in Peers |-> p_NewPeer]
    /\ p_seed = NotSeeding(p_torrent)
    /\ p_store = NoStore
    /\ p_progress = NoProgress
    /\ p_budget = 0

\* UDPTracker.__init__: no connection id yet
NoUdpSession ==
    [has_id |-> FALSE, connection_id |-> <<0, 0>>, age |-> 0, granted |-> <<0, 0>>,
     out |-> [type |-> "none", connection_id |-> <<0, 0>>, age |-> 0]]

TrackerNotStarted ==
    /\ t_kind = "off"
    /\ t_data = <<>>
    /\ t_peers = <<>>
    /\ t_pc = "wait"
    /\ t_udp = NoUdpSession

(***************************************************************************)
(* Tracker responses: decoding the compact peer list.                      *)
(***************************************************************************)
\* the endpoint of 6 bytes: socket.inet_ntoa (or the dotted join) of the
\* first four and struct.unpack('!H') of the last two
DecodeEndpoint(b) == [ip |-> SubSeq(b, 1, 4), port |-> b[5] * 256 + b[6]]

\* the 6 bytes of an endpoint: socket.inet_aton and struct.pack('!H')
EncodeEndpoint(e) == e.ip \o <<e.port \div 256, e.port % 256>>

\* UDPTracker.announce: ipaddress.ip_address(ip) accepts what inet_ntoa
\* made; the endpoint is kept if 1 <= port <= 65535
udp_keeps(e) == 1 <= e.port /\ e.port <= 65535

\* HTTPTracker._parse_compact_peers and TrackerResponse._parse_peers for
\* bytes: one endpoint for every whole group of 6 bytes
RECURSIVE _parse_compact_peers(_)
_parse_compact_peers(peers_data) ==
    IF Len(peers_data) < 6 THEN <<>>
    ELSE <<DecodeEndpoint(SubSeq(peers_data, 1, 6))>>
             \o _parse_compact_peers(SubSeq(peers_data, 7, Len(peers_data)))

\* the loop over peers_data of UDPTracker.announce
udp_parse_peers(peers_data) == SelectSeq(_parse_compact_peers(peers_data), udp_keeps)

t_HttpParse ==
    /\ t_kind = "http" /\ t_pc = "wait"
    /\ t_peers' = _parse_compact_peers(t_data)
    /\ t_pc' = "parsed"
    /\ UNCHANGED <<t_kind, t_data, t_udp>>
    /\ UNCHANGED <<c_vars, k_vars, p_vars>>

t_UdpParse ==
    /\ t_kind = "udp" /\ t_pc = "wait"
    /\ t_peers' = udp_parse_peers(t_data)
    /\ t_pc' = "parsed"
    /\ UNCHANGED <<t_kind, t_data, t_udp>>
    /\ UNCHANGED <<c_vars, k_vars, p_vars>>

t_ClientParse ==
    /\ t_kind = "client" /\ t_pc = "wait"
    /\ t_peers' = _parse_compact_peers(t_data)
    /\ t_pc' = "parsed"
    /\ UNCHANGED <<t_kind, t_data, t_udp>>
    /\ UNCHANGED <<c_vars, k_vars, p_vars>>

\* a response with a compact list of up to CompactPeers endpoints whose
\* bytes are 0 .. CompactByteMax
InitTracker ==
    /\ t_kind \in {"http", "udp", "client"}
    /\ \E k \in 0 .. CompactPeers : t_data \in [1 .. 6 * k -> 0 .. CompactByteMax]
    /\ t_peers = <<>>
    /\ t_pc = "wait"
    /\ t_udp = NoUdpSession

NextTracker ==
    \/ t_HttpParse
    \/ t_UdpParse
    \/ t_ClientParse

(***************************************************************************)
(* UDP trackers: connect, then announce.  Time is counted in steps of     *)
(* UdpTimeout seconds, the socket timeout of one attempt.                  *)
(***************************************************************************)
UdpTimeout == 15
MaxAge == 90
Tids == {0, 1}
\* a 64-bit connection id as its two 32-bit words, upper word first
ConnectionIds == {<<0, 0>>, <<0, 1>>, <<1, 0>>, <<1, 1>>}
\* what recvfrom gives for the connect request: nothing or too few bytes
\* ("none"), or 16 bytes holding action, transaction id and a 64-bit id
ConnectResponses ==
    {[kind |-> "none", action |-> 0, transaction_id |-> 0, connection_id |-> <<0, 0>>]}
    \cup [kind : {"full"}, action : {0, 3}, transaction_id : Tids,
          connection_id : ConnectionIds]

\* time passes
t_Tick ==
    /\ t_kind \in {"udp", "client"}
    /\ t_udp.age < MaxAge
    /\ t_udp' = [t_udp EXCEPT !.age = @ + UdpTimeout]
    /\ UNCHANGED <<t_kind, t_data, t_peers, t_pc>>
    /\ UNCHANGED <<c_vars, k_vars, p_vars>>

\* the connection id struct.unpack('>III', response[:12]) reads from the
\* connect response of tracker_client.py: the third 32-bit word, i.e. the
\* upper half of the 64-bit id, which struct.pack('>Q...') of the announce
\* then writes as the lower word of a 64-bit field
client_unpack_connection_id(connection_id) == <<0, connection_id[1]>>

\* UDPTracker.announce of tracker_client.py: _connect only while
\* connection_id is None, then one announce datagram
t_ClientUdpAnnounce ==
    /\ t_kind = "client"
    /\ \E transaction_id \in Tids, response \in ConnectResponses :
          LET valid == /\ response.kind = "full"
                       /\ response.action = 0
                       /\ response.transaction_id = transaction_id
              id == client_unpack_connection_id(response.connection_id)
          IN  IF t_udp.has_id
              THEN t_udp' = [t_udp EXCEPT
                               !.out = [type |-> "announce",
                                        connection_id |-> t_udp.connection_id,
                                        age |-> t_udp.age]]
              ELSE IF valid
              THEN t_udp' = [has_id |-> TRUE, connection_id |-> id, age |-> 0,
                             granted |-> response.connection_id,
                             out |-> [type |-> "announce", connection_id |-> id,
                                      age |-> 0]]
              ELSE t_udp' = [t_udp EXCEPT
                               !.out = [type |-> "connect", connection_id |-> <<0, 0>>,
                                        age |-> 0]]
    /\ UNCHANGED <<t_kind, t_data, t_peers, t_pc>>
    /\ UNCHANGED <<c_vars, k_vars, p_vars>>

\* UDPTracker.announce of tracker_complete.py: _connect reuses the id while
\* it is set and time.time() < connection_expires, else asks for a new one;
\* the announce datagram is then sent up to three times, each attempt
\* waiting UdpTimeout seconds for the answer
t_UdpAnnounce ==
    /\ t_kind = "udp"
    /\ \E transaction_id \in Tids, response \in ConnectResponses, attempt \in 0 .. 2 :
          LET still_valid == /\ t_udp.has_id
                             /\ t_udp.connection_id # <<0, 0>>
                             /\ t_udp.age < 60
              valid == /\ response.kind = "full"
                       /\ response.action = 0
                       /\ response.transaction_id = transaction_id
              sent_at(age) == age + attempt * UdpTimeout
          IN  IF still_valid
              THEN /\ sent_at(t_udp.age) <= MaxAge
                   /\ t_udp' = [t_udp EXCEPT
                        !.age = sent_at(t_udp.age),
                        !.out = [type |-> "announce",
                                 connection_id |-> t_udp.connection_id,
                                 age |-> sent_at(t_udp.age)]]
              ELSE IF valid
              THEN t_udp' = [has_id |-> TRUE,
                             connection_id |-> response.connection_id,
                             age |-> sent_at(0),
                             granted |-> response.connection_id,
                             out |-> [type |-> "announce",
                                      connection_id |-> response.connection_id,
                                      age |-> sent_at(0)]]
              ELSE t_udp' = [t_udp EXCEPT
                               !.out = [type |-> "connect", connection_id |-> <<0, 0>>,
                                        age |-> 0]]
    /\ UNCHANGED <<t_kind, t_data, t_peers, t_pc>>
    /\ UNCHANGED <<c_vars, k_vars, p_vars>>

InitUdp ==
    /\ t_kind \in {"udp", "client"}
    /\ t_data = <<>>
    /\ t_peers = <<>>
    /\ t_pc = "wait"
    /\ t_udp = NoUdpSession

NextUdp ==
    \/ t_Tick
    \/ t_ClientUdpAnnounce
    \/ t_UdpAnnounce

StartUdp == InitUdp /\ CompleteNotStarted /\ ClientNotStarted /\ PlainNotStarted

SpecUdp ==
    /\ StartUdp
    /\ [][NextUdp]_vars

StartTracker == InitTracker /\ CompleteNotStarted /\ ClientNotStarted /\ PlainNotStarted

SpecTracker ==
    /\ StartTracker
    /\ [][NextTracker]_vars

StartComplete == InitComplete /\ ClientNotStarted /\ PlainNotStarted /\ TrackerNotStarted

SpecComplete ==
    /\ StartComplete
    /\ [][NextComplete]_vars

StartClient == InitClient /\ CompleteNotStarted /\ PlainNotStarted /\ TrackerNotStarted

SpecClient ==
    /\ StartClient
    /\ [][NextClient]_vars

SpecStop ==
    /\ StartClient
    /\ [][NextStop]_vars

StartSwarm == InitSwarm /\ CompleteNotStarted /\ PlainNotStarted /\ TrackerNotStarted

SpecSwarm ==
    /\ StartSwarm
    /\ [][NextClient]_vars

StartBurst == InitBurst /\ CompleteNotStarted /\ PlainNotStarted /\ TrackerNotStarted

SpecBurst ==
    /\ StartBurst
    /\ [][NextClientNoTimeout]_vars

StartEager == InitEager /\ CompleteNotStarted /\ PlainNotStarted /\ TrackerNotStarted

SpecEager ==
    /\ StartEager
    /\ [][NextEager]_vars

SpecUpload ==
    /\ StartComplete
    /\ [][NextUpload]_vars

StartHandshake == InitHandshake /\ ClientNotStarted /\ PlainNotStarted /\ TrackerNotStarted

SpecHandshake ==
    /\ StartHandshake
    /\ [][NextHandshake]_vars

SpecFrame ==
    /\ StartHandshake
    /\ [][NextFrame]_vars

StartTiling == InitTiling /\ ClientNotStarted /\ PlainNotStarted /\ TrackerNotStarted

SpecTiling ==
    /\ StartTiling
    /\ [][NextTiling]_vars

StartStore == InitStore /\ CompleteNotStarted /\ ClientNotStarted /\ TrackerNotStarted

SpecStore ==
    /\ StartStore
    /\ [][NextStore]_vars

StartRace == InitRace /\ CompleteNotStarted /\ ClientNotStarted /\ TrackerNotStarted

SpecRace ==
    /\ StartRace
    /\ [][NextRace]_vars

StartSeed == InitSeed /\ CompleteNotStarted /\ ClientNotStarted /\ TrackerNotStarted

SpecSeed ==
    /\ StartSeed
    /\ [][NextSeed]_vars

StartFlood == InitFlood /\ CompleteNotStarted /\ ClientNotStarted /\ TrackerNotStarted

SpecFlood ==
    /\ StartFlood
    /\ [][NextFlood]_vars

InitProgress ==
    /\ p_torrent = MkTorrent(BLOCK_SIZE, ProgressPieces * BLOCK_SIZE)
    /\ p_pieces = [i \in PieceIndices(p_torrent) |-> <<>>]
    /\ p_have = {}
    /\ p_failed = {}
    /\ p_events = [i \in PieceIndices(p_torrent) |-> [received |-> 0, verified |-> 0]]
    /\ p_peer = [s \in Peers |-> p_NewPeer]
    /\ p_seed = NotSeeding(p_torrent)
    /\ p_store = NoStore
    /\ p_progress = [NoProgress EXCEPT !.pc = "new"]
    /\ p_budget = 0

NextProgress ==
    \/ p_SaveProgress
    \/ p_Restart

StartProgress == InitProgress /\ CompleteNotStarted /\ ClientNotStarted /\ TrackerNotStarted

SpecProgress ==
    /\ StartProgress
    /\ [][NextProgress]_vars

StartPlain == InitPlain /\ CompleteNotStarted /\ ClientNotStarted /\ TrackerNotStarted

SpecPlain ==
    /\ StartPlain
    /\ [][NextPlain]_vars

\* The session-drop runs.  A thread inside _request_pieces goes on, a peer
\* that can again and again answer a request does answer one, and time
\* passes.
StartDrop == InitDrop /\ ClientNotStarted /\ PlainNotStarted /\ TrackerNotStarted

SpecDrop ==
    /\ StartDrop
    /\ [][NextDrop]_vars
    /\ \A s \in Peers :
          /\ WF_vars(c_PumpStep(s))
          /\ SF_vars(c_RecvPiece(s))
    /\ WF_vars(c_Timeout)

\* blocks of the single piece of the torrent of the capped runs: as many as
\* get_next_request lets be pending for one piece
CapBlocks == 5

\* two fast, honest peers and a torrent of one piece of CapBlocks blocks,
\* nothing on disk; each peer is connected and has sent the bitfield of a
\* seeder, which _handle_bitfield answered with interested
InitCap ==
    /\ c_torrent = MkTorrent(CapBlocks * BLOCK_SIZE, CapBlocks * BLOCK_SIZE)
    /\ c_disk = [i \in PieceIndices(c_torrent) |-> "none"]
    /\ c_pm = PM_init(c_torrent, c_disk)
    /\ c_peer = [s \in Peers |->
                    [NewPeer EXCEPT !.phase = "open", !.thr = "idle",
                                    !.have_pieces = PieceIndices(c_torrent),
                                    !.am_interested = TRUE]]
    /\ c_out = NoMsg
    /\ c_budget = 0

\* the steps of such a run, in which every peer answers or closes within
\* request_timeout.  PieceManager.cleanup_stale_requests has no caller, so it
\* is no step.
NextCap ==
    \/ \E s \in Peers : c_RecvUnchoke(s)
    \/ \E s \in Peers : c_RecvPiece(s)
    \/ \E s \in Peers : c_PumpStep(s)
    \/ \E s \in Peers : c_LoopExit(s)

StartCap == InitCap /\ ClientNotStarted /\ PlainNotStarted /\ TrackerNotStarted

\* A thread inside _request_pieces goes on, and a peer that can again and
\* again answer a request does answer one.
SpecCap ==
    /\ StartCap
    /\ [][NextCap]_vars
    /\ \A s \in Peers :
          /\ WF_vars(c_PumpStep(s))
          /\ SF_vars(c_RecvPiece(s))

(***************************************************************************)
(* Properties of the session-drop runs.                                    *)
(***************************************************************************)
\* blocks of piece 0 the piece manager holds
ReceivedBlocks ==
    {k \in SeqIndices(c_pm.pieces[0].blocks) : c_pm.pieces[0].blocks[k].received}

\* session A is closed with half of the piece delivered, and session B is
\* open, unchoked, interested, has the piece and has nothing outstanding
DropState ==
    /\ c_peer["A"].phase = "closed"
    /\ Cardinality(ReceivedBlocks) = 2
    /\ 0 \notin c_pm.completed_pieces
    /\ c_peer["B"].phase = "open"
    /\ ~c_peer["B"].peer_choking
    /\ c_peer["B"].am_interested
    /\ 0 \in c_peer["B"].have_pieces
    /\ c_peer["B"].pending_requests = {}

\* C5: when session A is closed after 2 of the 4 requested blocks of piece
\* p arrived, the 2 others are eventually requested from session B
\* (unchoked, interested, having p) and p is then verified -- as long as
\* session B itself stays open.
C5_DropIsRecovered ==
    DropState ~> (0 \in c_pm.completed_pieces \/ c_peer["B"].phase # "open")

(***************************************************************************)
(* Properties of the "client" implementation.                              *)
(***************************************************************************)
\* C2: a piece rejected for a hash mismatch is back among the requestable
\* pieces: a piece that is not completed and has blocks to request is
\* never skipped by the selector.
C2_RejectedPieceSelectable ==
    \A i \in PieceIndices(k_torrent) :
        (k_pm.pieces[i].state # "completed" /\ get_pending_blocks(k_pm.pieces[i]) # {})
            => _select_piece(k_pm, {i}) = {i}

\* C6: the requests pending on a live session never number more than
\* max_inflight_per_peer (10).
C6_PendingWithinLimit ==
    \A sid \in ActiveSessions :
        Cardinality(k_conn[sid].pending_requests) <= max_pending_requests

\* C8: no request is sent on a session whose peer_choking flag is set, also
\* when the choke is handled while the scheduler is serving that session.
C8_NoRequestWhileChoked ==
    k_out.type = "request" => ~k_conn[k_out.peer].peer_choking

\* C9: the sessions that are active never number more than max_peers.
C9_ActiveWithinMaxPeers == Cardinality(ActiveSessions) <= k_cfg.max_peers

\* the cap is reached while the tracker offers an endpoint without a session
\* and a further connection could be made
C9_Witness ==
    /\ Cardinality(ActiveSessions) = k_cfg.max_peers
    /\ k_cfg.max_peers < k_cfg.max_conn
    /\ Len(k_conn) < k_cfg.max_conn
    /\ \E e \in k_cfg.endpoints : \A sid \in ActiveSessions : k_conn[sid].endpoint # e

\* C10: no two active sessions have the same (ip, port).
C10_DistinctEndpoints ==
    \A s1, s2 \in ActiveSessions :
        s1 # s2 => k_conn[s1].endpoint # k_conn[s2].endpoint

\* add_peer was offered the endpoint of an active session and refused it
C10_Witness ==
    /\ k_out.type = "add_peer"
    /\ k_out.result = "duplicate"
    /\ \E sid \in ActiveSessions : k_conn[sid].endpoint = k_out.endpoint

(***************************************************************************)
(* Properties of the "plain" implementation.                               *)
(***************************************************************************)
\* C3: the completion event of a piece, the one that triggers the
\* write-through, is published once per piece and not again when further
\* blocks of the piece arrive.
C3_CompletionPublishedOnce ==
    \A i \in PieceIndices(p_torrent) : p_events[i].received <= 1


\* C11: once the completion event of piece p has been published, no later
\* request_pieces of any session asks for a block of p.
C11_NoRequestAfterCompletion ==
    [][\A s \in Peers : \A r \in p_peer'[s].asked \ p_peer[s].asked :
          p_events[r[1]].received = 0]_vars

\* C12: a piece that has passed the hash check stays verified and its stored
\* blocks are not changed afterwards, whatever blocks arrive later.
C12_VerifiedIsImmutable ==
    [][\A i \in PieceIndices(p_torrent) :
          p_events[i].received > 0 => p_pieces'[i] = p_pieces[i]]_vars

\* the lengths of the pieces of a set, added up
RECURSIVE SumOfSizes(_, _)
SumOfSizes(pm, indices) ==
    IF indices = {} THEN 0
    ELSE LET i == CHOOSE x \in indices : TRUE
         IN  pm.pieces[i].size + SumOfSizes(pm, indices \ {i})

\* C13: the downloaded counter is the sum of the lengths of the pieces that
\* are verified now and were missing at startup; pieces found on disk,
\* blocks of failed pieces, rejected and duplicate blocks do not count.
C13_DownloadedCounter ==
    k_pm.total_downloaded = SumOfSizes(k_pm, k_pm.completed_pieces \ k_cfg.resumed)

\* C14: block delivery is deduplicated: the count of received blocks of a
\* piece is the number of its distinct blocks that are stored, so that the
\* hash check runs only when every distinct block is present.
C14_DeliveryDeduplicated ==
    \A i \in PieceIndices(k_torrent) :
        k_pm.pieces[i].downloaded_blocks =
            Cardinality({j \in SeqIndices(k_pm.pieces[i].blocks) :
                            k_pm.pieces[i].blocks[j].received})

\* C15: a have message is on the wire only for a piece that passed its hash
\* check and whose write to disk succeeded, so no peer is told of a piece
\* that is not persisted
C15_HaveOnlyAfterPersisted ==
    k_out.type = "have" =>
        /\ k_out.piece_index \in k_pm.completed_pieces
        /\ k_pm.pieces[k_out.piece_index].state = "completed"
        /\ k_disk[k_out.piece_index] = "ok"

\* a have message was sent to a connected peer, in a run in which a write to
\* disk may fail
C15_Witness ==
    /\ k_out.type = "have"
    /\ k_out.peers # {}
    /\ k_pm.completed_pieces # {}

\* C16: in seed mode every piece of the have set was hash-verified against
\* the disk, so a piece whose bytes on disk do not match its hash is neither
\* in the have set nor announced
C16_SeedOnlyVerified ==
    p_seed.mode = "seeding" =>
        /\ ~_verify_all_pieces(p_torrent, p_seed.disk).raised
        /\ p_have \subseteq _verify_all_pieces(p_torrent, p_seed.disk).have

\* C17: when every piece is found verified on disk at startup (all pieces
\* completed while no peer connection was ever made), no step of the run
\* connects to a peer
C17_CompleteStartIsQuiet ==
    [][(k_pm.completed_pieces = PieceIndices(k_torrent) /\ k_conn = <<>>)
       => k_conn' = <<>>]_vars

\* C18: a bitfield with a spare bit set past the last piece is rejected, so
\* the bitfield an open session keeps never holds an index that is no piece
C18_PaddedBitfieldRejected ==
    \A s \in Peers :
        p_peer[s].phase = "open" => p_peer[s].bitfield \subseteq PieceIndices(p_torrent)

\* C19: a request for more than 16384 bytes is refused, so no piece message
\* on the wire carries a block longer than 16384 bytes
C19_OversizedRequestRefused ==
    c_out.type = "piece" => c_out.length <= BLOCK_SIZE

RECURSIVE SumOfLengths(_)
SumOfLengths(blocks) ==
    IF blocks = <<>> THEN 0 ELSE Head(blocks).length + SumOfLengths(Tail(blocks))

\* the final piece of the torrent
FinalPiece == c_pm.pieces[c_torrent.num_pieces - 1]

\* C20: the blocks of every piece tile it: block k starts at (k-1)*16384,
\* every block but the last is 16384 bytes long and the last is 1..16384, the
\* lengths add up to the piece length, and the final piece is as long as
\* total_length - (n-1)*piece_length; the final piece is verified as soon as
\* all its blocks are delivered
C20_BlocksTileEachPiece ==
    /\ \A i \in PieceIndices(c_torrent) :
         LET piece == c_pm.pieces[i]
             n == Len(piece.blocks)
         IN  /\ piece.length = IF i = c_torrent.num_pieces - 1
                                THEN c_torrent.total_length
                                         - (c_torrent.num_pieces - 1) * c_torrent.piece_length
                                ELSE c_torrent.piece_length
             /\ n >= 1
             /\ \A k \in 1 .. n : piece.blocks[k].offset = (k - 1) * BLOCK_SIZE
             /\ \A k \in 1 .. (n - 1) : piece.blocks[k].length = BLOCK_SIZE
             /\ piece.blocks[n].length \in 1 .. BLOCK_SIZE
             /\ SumOfLengths(piece.blocks) = piece.length
    /\ (\A k \in SeqIndices(FinalPiece.blocks) : FinalPiece.blocks[k].received)
           => /\ FinalPiece.verified
              /\ (c_torrent.num_pieces - 1) \in c_pm.completed_pieces

\* a final piece shorter than the piece length, of a full block and a block
\* of less than 16384 bytes, is verified after its blocks were delivered
C20_Witness ==
    /\ FinalPiece.length < c_torrent.piece_length
    /\ Len(FinalPiece.blocks) = 2
    /\ FinalPiece.blocks[2].length < BLOCK_SIZE
    /\ \A k \in SeqIndices(FinalPiece.blocks) : FinalPiece.blocks[k].received
    /\ FinalPiece.verified

RECURSIVE Concat(_)
Concat(q) == IF q = <<>> THEN <<>> ELSE Head(q) \o Concat(Tail(q))

\* C21: once piece p is written, byte i of the piece is at absolute offset
\* p*piece_length + i of the concatenation of the files in metainfo order
C21_PieceAtAbsoluteOffset ==
    \A index \in p_store.written :
        \A i \in 1 .. StorePieceLength(p_store, index) :
            Concat(p_store.data)[index * p_store.piece_length + i]
                = index * p_store.piece_length + i

RECURSIVE EncodeAll(_)
EncodeAll(peers) ==
    IF peers = <<>> THEN <<>> ELSE EncodeEndpoint(Head(peers)) \o EncodeAll(Tail(peers))

\* C22: a compact peer list of 6k bytes decodes to exactly k endpoints, and
\* encoding the decoded endpoints again gives the same bytes
C22_CompactRoundTrip ==
    t_pc = "parsed" =>
        /\ Len(t_peers) * 6 = Len(t_data)
        /\ EncodeAll(t_peers) = t_data

\* C23: the all-blocks-present check, the hash check and what follows are
\* one atomic step: while the thread of one session is between the check and
\* the hash of a piece, no step but its own changes the blocks of that piece
C23_VerificationIsAtomic ==
    [][\A s \in Peers :
          (p_peer[s].verifying # NoPiece /\ p_peer'[s].verifying # NoPiece)
              => p_pieces'[p_peer[s].verifying] = p_pieces[p_peer[s].verifying]]_vars

\* C24: right after a session processed choke its pending set is empty
C24_ChokeClearsPending ==
    [][\A sid \in SeqIndices(k_conn) :
          (~k_conn[sid].peer_choking /\ k_conn'[sid].peer_choking)
              => k_conn'[sid].pending_requests = {}]_vars

\* session s is open, interested and unchoked, its message thread waits for
\* the next message, it holds fewer than max_pending_requests requests, and
\* the engine has a block to hand out of a needed piece the peer has
TopUpDue(s) ==
    /\ c_peer[s].phase = "open" /\ c_peer[s].thr = "idle"
    /\ c_peer[s].am_interested /\ ~c_peer[s].peer_choking
    /\ Cardinality(c_peer[s].pending_requests) < max_pending_requests
    /\ \E i \in c_peer[s].have_pieces \cap PieceIndices(c_torrent) :
          need_piece(c_pm, i) /\ Grantable(c_pm, i)

\* C25: an interested, unchoked session below its limit does not stay idle
\* for ever while the engine has a requestable block of a piece its peer
\* has: it eventually asks for one (or the situation ends otherwise)
C25_PendingIsToppedUp ==
    \A s \in Peers : TopUpDue(s) ~> ~TopUpDue(s)

\* the requests held pending by the Peers that are connected
LivePending == UNION {c_peer[s].pending_requests : s \in {x \in Peers : c_peer[x].phase = "open"}}

\* C26: the piece manager's pending_requests and the Peers' pending_requests
\* agree: a block is tracked as requested by the piece manager exactly when
\* a connected Peer holds it pending.
C26_EngineAgreesWithSessions ==
    c_pm.pending_requests = LivePending

\* C26, second part: a choke on, or a close of, one Peer leaves in the piece
\* manager the record of every block another connected Peer still holds
\* pending.
C26_OthersKeepTheirRecord ==
    [][\A s \in Peers :
          (c_peer[s].pending_requests # {} /\ c_peer'[s].pending_requests = {})
              => \A o \in Peers \ {s} :
                    (c_peer'[o].phase = "open")
                        => c_peer'[o].pending_requests \cap c_pm.pending_requests
                              \subseteq c_pm'.pending_requests]_vars

\* C27: the piece manager never hands out a request for a block whose data
\* it has received and stored in the current download of the piece, however
\* long ago the block was first requested.
C27_NoRequestForStoredBlock ==
    [][(c_pm' # c_pm /\ c_out'.type = "request")
          => ~RequestedBlock(c_pm, <<c_out'.piece_index, c_out'.block_offset>>).received]_vars

\* a needed piece that a connected, interested, unchoked Peer's remote side
\* has is skipped by get_next_request: it has PIECE_PENDING_CAP entries in
\* the piece manager's pending_requests
CapBlocked(i) ==
    /\ need_piece(c_pm, i)
    /\ PiecePending(c_pm, i) >= PIECE_PENDING_CAP
    /\ \E s \in Peers :
          /\ c_peer[s].phase = "open"
          /\ c_peer[s].am_interested /\ ~c_peer[s].peer_choking
          /\ i \in c_peer[s].have_pieces

\* C28: the cap of 5 pending entries per piece never blocks a piece for
\* ever: the entries a closed Peer or a failed send left behind are
\* eventually removed and the piece (piece 0, the piece of the capped runs)
\* is handed out again.
C28_CapNeverBlocksForever ==
    CapBlocked(0) ~> ~CapBlocked(0)

\* C29: whichever thread closes a connected Peer -- its message loop, a
\* failed send, the keep-alive thread, PeerManager.stop -- the cleanup of
\* disconnect() (pending requests cancelled, on_disconnect called) has run
\* to its end exactly once when the Peer is closed.
C29_CleanupRunsOnce ==
    [][\A s \in Peers :
          (c_peer[s].phase = "open" /\ c_peer'[s].phase = "closed")
              => c_peer'[s].cleanups = 1]_vars

\* C30: on every connection a request is sent only after interested was
\* sent on that connection.
C30_InterestedBeforeRequest ==
    [][\A s \in Peers :
          (p_peer'[s].asked \ p_peer[s].asked # {}) => p_peer[s].interested]_vars

\* C31: on every connected Peer, when no handler is running, am_interested
\* is true exactly when the remote side has a piece of the torrent that is
\* not completed locally.
C31_InterestTracksNeed ==
    \A s \in Peers :
        (c_peer[s].phase = "open" /\ \A o \in Peers : c_peer[o].thr # "pump")
            => (c_peer[s].am_interested
                  <=> \E i \in c_peer[s].have_pieces \cap PieceIndices(c_torrent) :
                         need_piece(c_pm, i))

\* C32: a piece message is sent in answer to a request only if am_choking
\* is false on that Peer when the request is handled; a request handled
\* while am_choking is true gets no piece.
C32_NoPieceWhileChoking ==
    [][c_out'.type = "piece" => ~c_peer[c_out'.peer].am_choking]_vars

\* C32 witness: a piece message went out on a Peer whose remote side had
\* been unchoked
C32_Witness ==
    /\ c_out.type = "piece"
    /\ ~c_peer[c_out.peer].am_choking
    /\ c_peer[c_out.peer].peer_interested

\* C33: the sweep at the end of a pass of the download loop re-queues every
\* pending request older than the timeout: the request leaves the pending
\* set of the connection that holds it and its block is requestable again.
C33_SweepRequeuesExpired ==
    [][(k_loop.pc = "request" /\ k_loop.todo = <<>> /\ k_loop.queue = <<>>
          /\ k_loop'.pc = "wait")
          => \A sid \in SeqIndices(k_conn) : \A r \in k_conn[sid].pending_requests :
                LET j == BlockAt(k_pm.pieces[r[1]], r[2])
                IN  (k_pm.pieces[r[1]].blocks[j].requested
                        /\ k_pm.pieces[r[1]].blocks[j].aged)
                       => /\ r \notin k_conn'[sid].pending_requests
                          /\ ~k_pm'.pieces[r[1]].blocks[j].requested]_vars

\* C34: at any time each block is in flight (requested and not answered)
\* on at most 2 connections.
C34_BlockInFlightAtMostTwice ==
    \A r \in UNION {p_peer[s].asked : s \in DOMAIN p_peer} :
        Cardinality({s \in DOMAIN p_peer : r \in p_peer[s].asked}) <= 2

\* C35: a Peer whose received handshake carries an info hash different from
\* the torrent's is closed and never becomes active: its message thread is
\* never started, no message of the remote side is processed (choke state,
\* pieces and pending requests stay as constructed) and neither interested
\* nor a request is sent to it.
C35_ForeignHandshakeNeverActive ==
    \A s \in Peers :
        c_peer[s].resp_info_hash \notin {"none", info_hash}
            => /\ c_peer[s].phase = "closed"
               /\ c_peer[s].thr = "none"
               /\ ~c_peer[s].am_interested
               /\ c_peer[s].peer_choking
               /\ c_peer[s].have_pieces = {}
               /\ c_peer[s].pending_requests = {}
               /\ c_out.type \in {"interested", "request"} => c_out.peer # s

\* C35 witness: one Peer was closed for a foreign info hash while the other
\* one downloads
C35_Witness ==
    \E s \in Peers : \E o \in Peers \ {s} :
        /\ c_peer[s].resp_info_hash = "other"
        /\ c_peer[s].phase = "closed"
        /\ c_peer[o].resp_info_hash = info_hash
        /\ c_peer[o].pending_requests # {}

\* C36: a frame whose length prefix is greater than 2^17 + 13 closes the
\* Peer as soon as the prefix has been read: the message thread never waits
\* for the payload of such a frame.
C36_OversizeFrameNotAwaited ==
    \A s \in Peers :
        c_peer[s].thr = "payload" => c_peer[s].message_length <= 2^17 + 13

\* C37: on termination the manager first sends Cancel for every outstanding
\* request, then attempts the stopped announce, and only then closes the
\* sockets: when the stopped announce goes out no connection holds a request
\* that was not cancelled, and the sockets are closed by stop only after the
\* announce.
C37_StopOrder ==
    [][/\ (k_out'.type = "stopped" /\ k_loop.pc # "announced")
            => \A sid \in SeqIndices(k_conn) :
                  k_conn[sid].connected => k_conn[sid].pending_requests = {}
       /\ (k_loop'.pc = "stopped" /\ k_loop.pc # "stopped")
            => k_loop.pc = "announced"]_vars

\* C38: every UDP announce is sent with the 64-bit connection_id that a
\* connect response with the matching transaction id returned, and that
\* response is at most 60 seconds old when the announce is sent.
C38_AnnounceUsesFreshConnectionId ==
    [][(t_udp'.out.type = "announce" /\ t_udp'.out # t_udp.out)
          => /\ t_udp'.out.connection_id = t_udp'.granted
             /\ t_udp'.out.age <= 60]_vars

\* C39: the left value reported to the trackers is total_length minus the
\* lengths of the verified pieces, is never negative, and is 0 exactly when
\* every piece is verified.
C39_LeftIsUnverifiedBytes ==
    k_out.type = "stopped" =>
        /\ k_out.left = k_torrent.total_length
                          - SumOfSizes(k_pm, k_pm.completed_pieces)
        /\ k_out.left >= 0
        /\ k_out.left = 0 <=> k_pm.completed_pieces = PieceIndices(k_torrent)

\* C40: the verified pieces saved to the progress file are exactly what
\* load_progress returns when the engine is next started on the same
\* directory: after a save, the restarted engine has the saved have_pieces.
C40_ProgressRoundTrip ==
    [][(p_progress.pc = "saved" /\ p_progress'.pc = "started")
          => p_have' = p_progress.saved.have_pieces]_vars

====
